---- MODULE Spec2Model ----
(***************************************************************************)
(* Model of the documentation content pipeline                             *)
(* (.agents/skills/nestjs-best-practices/website/scripts/                  *)
(* generate-content.ts): parseSections, parseRules, parseGuides,           *)
(* parseConcepts, generateOutput and main, together with the marked        *)
(* renderer overrides (renderer.code, renderer.link).                      *)
(*                                                                         *)
(* JavaScript strings that the code inspects character by character        *)
(* (file names, section ids, link targets, language names, titles) are     *)
(* sequences of one-character strings, so that startsWith, endsWith,       *)
(* split and replace are computed, not assumed.                            *)
(***************************************************************************)
EXTENDS Integers, Sequences, FiniteSets, TLC

VARIABLES
    \* ---- the file system the build step reads and writes
    sectionsFile,   \* RULES_DIR/_sections.md: [exists, lines]
    rulesDir,       \* RULES_DIR listing:      [exists, files]
    guidesDir,      \* CONTENT_DIR/guides:     [exists, files]
    conceptsDir,    \* CONTENT_DIR/concepts:   [exists, files]
    outputFile,     \* OUTPUT_FILE:            [exists, content]
    \* ---- the run of main()
    pc,             \* position of main()
    sections,       \* const sections  (main, line 465)
    rules,          \* const rules     (main, line 466)
    guides,         \* const guides    (main, line 467)
    concepts,       \* const concepts  (main, line 468)
    highlighter,    \* module-level `highlighter` (line 59): "null" or "instance"
    hlCreated,      \* number of createHighlighter calls so far
    hlFaulty,       \* whether hl.codeToHtml throws in this environment
    warnings,       \* console.warn lines
    errorLog,       \* console.error lines
    rejection,      \* the reason main()'s promise was rejected with, "" if none
    exitCode,       \* -1 while running, then the process exit status
    phaseLog,       \* the calls main() has made so far, in order
    run,            \* how many times the script has been started
    previousOutput, \* the output file as the previous run left it
    \* ---- the marked renderer, exercised on single tokens
    tok,            \* the token handed to the renderer
    html,           \* what the renderer returned for it
    \* ---- the site that imports the generated module
    route,          \* the route being served: [page, slug]
    view,           \* what the route's loader and component produced
    \* ---- the API's users collection, AuthService and the seed script
    users,          \* the users collection, in insertion order
    usersSeed,      \* the list exported by seed/data/users.seed
    loginDto,       \* the body of the last POST /auth/login: <<>> or <<[email, password]>>
    loginResult,    \* what AuthService.login returned or threw for it
    seedPc,         \* position of bootstrap() in scripts/seed.ts
    seedIndex,      \* the entry of usersSeed the loop of seedUsers is at
    seedSteps,      \* the awaited calls of bootstrap() that have completed
    seedError,      \* the error bootstrap()'s try block threw, "" if none
    seedLog,        \* console.error lines of the seed script
    seedExit,       \* -1 while running, then the status given to process.exit
    appOpen,        \* whether the application context is open
    seedRun,        \* how many times the seed script has been started
    \* ---- the theme provider of the site
    themePc,        \* "off", "unmounted" or "mounted"
    theme,          \* ThemeProvider state `theme`
    resolvedTheme,  \* ThemeProvider state `resolvedTheme`
    storedTheme,    \* localStorage item "theme": <<>> or <<value>>
    osDark,         \* matchMedia("(prefers-color-scheme: dark)").matches
    rootDark,       \* whether document.documentElement has the class "dark"
    effectsPending, \* the effects of the last commit have not run yet
    listenerTheme,  \* `theme` as closed over by the subscribed handleChange, <<>> if none
    trail           \* the values of `theme` since mount, oldest first

pipeVars == <<sectionsFile, rulesDir, guidesDir, conceptsDir, outputFile, pc,
              sections, rules, guides, concepts, highlighter, hlCreated,
              hlFaulty, warnings, errorLog, rejection, exitCode, phaseLog>>
renderVars == <<tok, html>>
runVars == <<run, previousOutput>>
siteVars == <<route, view>>
backVars == <<users, usersSeed, loginDto, loginResult, seedPc, seedIndex, seedSteps,
              seedError, seedLog, seedExit, appOpen, seedRun>>
themeVars == <<themePc, theme, resolvedTheme, storedTheme, osDark, rootDark,
               effectsPending, listenerTheme, trail>>
appVars == <<backVars, themeVars>>
vars == <<pipeVars, renderVars, runVars, siteVars, appVars>>

----------------------------------------------------------------------------
\* Bounds of the model

MaxRuleFiles == 3
MaxGuideFiles == 3
MaxSectionLines == 4
MaxHrefTail == 2
MaxRuns == 2
MaxRefs == 2
MaxUsers == 2
MaxSeed == 2
MaxSeedRuns == 2

----------------------------------------------------------------------------
\* Program constants

\* const BASE_PATH = "/agent-nestjs-skills"
BASE_PATH ==
    <<"/","a","g","e","n","t","-","n","e","s","t","j","s","-","s","k","i","l","l","s">>

\* data.order || 999
DefaultOrder == 999

\* langs: [...] handed to createHighlighter
LoadedLanguages ==
    { <<"t","y","p","e","s","c","r","i","p","t">>,
      <<"j","a","v","a","s","c","r","i","p","t">>,
      <<"b","a","s","h">>,
      <<"j","s","o","n">>,
      <<"y","a","m","l">>,
      <<"s","q","l">>,
      <<"h","t","m","l">>,
      <<"c","s","s">>,
      <<"p","l","a","i","n","t","e","x","t">> }

PLAINTEXT == <<"p","l","a","i","n","t","e","x","t">>

----------------------------------------------------------------------------
\* JavaScript string primitives on character sequences

\* String.prototype.startsWith
StartsWith(s, p) == Len(p) <= Len(s) /\ SubSeq(s, 1, Len(p)) = p

\* String.prototype.endsWith
EndsWith(s, p) == Len(p) <= Len(s) /\ SubSeq(s, Len(s) - Len(p) + 1, Len(s)) = p

\* String.prototype.indexOf for one character, 1-based; 0 when absent
IndexOf(s, c) ==
    IF \E i \in 1..Len(s) : s[i] = c
    THEN CHOOSE i \in 1..Len(s) : s[i] = c /\ \A j \in 1..(i - 1) : s[j] # c
    ELSE 0

\* s.split(c)[0]: the text before the first c, or all of s when c is absent
SplitFirst(s, c) ==
    IF IndexOf(s, c) = 0 THEN s ELSE SubSeq(s, 1, IndexOf(s, c) - 1)

DOT_MD == <<".", "m", "d">>

\* the file name taken as the slug
KeepExtension(s) == s

\* filename.replace(/\.md$/, "")
StripMd(s) == IF EndsWith(s, DOT_MD) THEN SubSeq(s, 1, Len(s) - 3) ELSE s

\* Array.prototype.sort((a, b) => a.order - b.order): a stable sort
\* (ECMAScript 2019), as a stable insertion sort.
OrderBefore(a, b) == a.order - b.order < 0

RECURSIVE InsertByOrder(_, _)
InsertByOrder(x, s) ==
    IF s = <<>> THEN <<x>>
    ELSE IF OrderBefore(x, s[1]) THEN <<x>> \o s
    ELSE <<s[1]>> \o InsertByOrder(x, Tail(s))

RECURSIVE SortByOrder(_)
SortByOrder(s) ==
    IF s = <<>> THEN <<>>
    ELSE InsertByOrder(s[Len(s)], SortByOrder(SubSeq(s, 1, Len(s) - 1)))

----------------------------------------------------------------------------
\* String.prototype.localeCompare (root collation): letters compare without
\* regard to case first, punctuation sorts before letters, and only when the
\* strings are equal on that level does lower case sort before upper case.

UpperCase == {"A", "B", "C"}

ToLower(c) == CASE c = "A" -> "a" [] c = "B" -> "b" [] c = "C" -> "c" [] OTHER -> c

CollationOrder == <<"_", "-", ".", "a", "b", "c", "d", "m", "t", "x", "y">>

PrimaryWeight(c) == IndexOf(CollationOrder, ToLower(c))

TertiaryWeight(c) == IF c \in UpperCase THEN 1 ELSE 0

\* three-way lexicographic comparison of two sequences of integers
LexCompare(u, v) ==
    LET n == IF Len(u) < Len(v) THEN Len(u) ELSE Len(v)
        diff == {i \in 1..n : u[i] # v[i]}
    IN  IF diff # {}
        THEN LET i == CHOOSE k \in diff : \A j \in diff : k <= j
             IN  IF u[i] < v[i] THEN -1 ELSE 1
        ELSE IF Len(u) < Len(v) THEN -1
        ELSE IF Len(u) > Len(v) THEN 1
        ELSE 0

LocaleCompare(a, b) ==
    LET p == LexCompare([i \in 1..Len(a) |-> PrimaryWeight(a[i])],
                        [i \in 1..Len(b) |-> PrimaryWeight(b[i])])
    IN  IF p # 0 THEN p
        ELSE LexCompare([i \in 1..Len(a) |-> TertiaryWeight(a[i])],
                        [i \in 1..Len(b) |-> TertiaryWeight(b[i])])

\* sectionRules.sort((a, b) => a.title.localeCompare(b.title))
TitleBefore(a, b) == LocaleCompare(a.title, b.title) < 0

RECURSIVE InsertByTitle(_, _)
InsertByTitle(x, s) ==
    IF s = <<>> THEN <<x>>
    ELSE IF TitleBefore(x, s[1]) THEN <<x>> \o s
    ELSE <<s[1]>> \o InsertByTitle(x, Tail(s))

RECURSIVE SortByTitle(_)
SortByTitle(s) ==
    IF s = <<>> THEN <<>>
    ELSE InsertByTitle(s[Len(s)], SortByTitle(SubSeq(s, 1, Len(s) - 1)))

----------------------------------------------------------------------------
\* parseSections.  A line of _sections.md is represented by what the three
\* regular expressions of the loop extract from it:
\*   kind "header": /^## (\d+)\. ([^(]+)\s*\((\w+)\)/ matches, with the
\*                  ordinal, the trimmed title and the id;
\*   kind "noid":   a heading "## N. Title" without "(id)": no regex matches;
\*   kind "impact": /^\*\*Impact:\*\*\s*(.+)/ matches, with the trimmed value;
\*   kind "desc":   /^\*\*Description:\*\*\s*(.+)/ matches, with the value;
\*   kind "other":  no regex matches.

HeaderLine(n, t, i) == [kind |-> "header", order |-> n, title |-> t, id |-> i, value |-> ""]
NoIdLine(n, t) == [kind |-> "noid", order |-> n, title |-> t, id |-> <<>>, value |-> ""]
ImpactLine(v) == [kind |-> "impact", order |-> 0, title |-> "", id |-> <<>>, value |-> v]
DescLine(v) == [kind |-> "desc", order |-> 0, title |-> "", id |-> <<>>, value |-> v]
OtherLine == [kind |-> "other", order |-> 0, title |-> "", id |-> <<>>, value |-> ""]

\* the loop with a heading that lacks its id opening a section of its own
RECURSIVE SectionsLoopClosing(_, _, _, _)
SectionsLoopClosing(lines, i, acc, cur) ==
    IF i > Len(lines)
    THEN IF cur # <<>> /\ cur[1].id # <<>> THEN Append(acc, cur[1]) ELSE acc
    ELSE LET line == lines[i] IN
         IF line.kind \in {"header", "noid"}
         THEN SectionsLoopClosing(lines, i + 1,
                  IF cur # <<>> /\ cur[1].id # <<>> THEN Append(acc, cur[1]) ELSE acc,
                  << [order |-> line.order, title |-> line.title, id |-> line.id,
                      impact |-> "", description |-> ""] >>)
         ELSE IF cur # <<>> /\ line.kind = "impact"
         THEN SectionsLoopClosing(lines, i + 1, acc, << [cur[1] EXCEPT !.impact = line.value] >>)
         ELSE IF cur # <<>> /\ line.kind = "desc"
         THEN SectionsLoopClosing(lines, i + 1, acc, << [cur[1] EXCEPT !.description = line.value] >>)
         ELSE SectionsLoopClosing(lines, i + 1, acc, cur)

\* One pass of the for loop (lines 179-208) from line i on.  cur is
\* currentSection: <<>> for null, <<s>> for a section under construction.
RECURSIVE SectionsLoop(_, _, _, _)
SectionsLoop(lines, i, acc, cur) ==
    IF i > Len(lines)
    THEN \* lines 210-214
         IF cur # <<>> /\ cur[1].id # <<>> THEN Append(acc, cur[1]) ELSE acc
    ELSE LET line == lines[i] IN
         IF line.kind = "header"
         THEN SectionsLoop(lines, i + 1,
                  IF cur # <<>> /\ cur[1].id # <<>> THEN Append(acc, cur[1]) ELSE acc,
                  << [order |-> line.order, title |-> line.title, id |-> line.id,
                      impact |-> "", description |-> ""] >>)
         ELSE IF cur # <<>> /\ line.kind = "impact"
         THEN SectionsLoop(lines, i + 1, acc, << [cur[1] EXCEPT !.impact = line.value] >>)
         ELSE IF cur # <<>> /\ line.kind = "desc"
         THEN SectionsLoop(lines, i + 1, acc, << [cur[1] EXCEPT !.description = line.value] >>)
         ELSE SectionsLoop(lines, i + 1, acc, cur)

\* parseSections with the sections numbered by their place in the list
parseSectionsRenumbered(file) ==
    IF ~file.exists
    THEN [threw |-> TRUE, error |-> "ENOENT _sections.md", value |-> <<>>]
    ELSE [threw |-> FALSE, error |-> "",
          value |-> LET v == SectionsLoop(file.lines, 1, <<>>, <<>>)
                    IN  [k \in 1..Len(v) |-> [v[k] EXCEPT !.order = k]]]

\* parseSections(): readFileSync throws when the file does not exist
parseSections(file) ==
    IF ~file.exists
    THEN [threw |-> TRUE, error |-> "ENOENT _sections.md", value |-> <<>>]
    ELSE [threw |-> FALSE, error |-> "", value |-> SectionsLoop(file.lines, 1, <<>>, <<>>)]

----------------------------------------------------------------------------
\* The marked renderer (createMarkedRenderer).  A token is
\* [type, text, lang, href, title]; an absent lang, href or title is <<>>
\* (undefined and "" are both falsy in the code's `||` and `?:` tests).

CodeToken(text, lang) == [type |-> "code", text |-> text, lang |-> lang, href |-> <<>>, title |-> <<>>]
LinkToken(href, title, text) == [type |-> "link", text |-> text, lang |-> <<>>, href |-> href, title |-> title]
HeadingToken(text) == [type |-> "heading", text |-> text, lang |-> <<>>, href |-> <<>>, title |-> <<>>]
ParagraphToken(text) == [type |-> "paragraph", text |-> text, lang |-> <<>>, href |-> <<>>, title |-> <<>>]

TS == <<"t","s">>
JS == <<"j","s">>
SH == <<"s","h">>
SHELL == <<"s","h","e","l","l">>
YML == <<"y","m","l">>
TYPESCRIPT == <<"t","y","p","e","s","c","r","i","p","t">>
JAVASCRIPT == <<"j","a","v","a","s","c","r","i","p","t">>
BASH == <<"b","a","s","h">>
YAML == <<"y","a","m","l">>
CONSTRUCTOR == <<"c","o","n","s","t","r","u","c","t","o","r">>

\* langMap[language]: the object literal of lines 79-85.  A key inherited from
\* Object.prototype ("constructor") yields a truthy value that is no string.
InheritedValue == <<"[Function: Object]">>

LangMapLookup(language) ==
    CASE language = TS -> TYPESCRIPT
      [] language = JS -> JAVASCRIPT
      [] language = SH -> BASH
      [] language = SHELL -> BASH
      [] language = YML -> YAML
      [] language = CONSTRUCTOR -> InheritedValue
      [] OTHER -> <<>>

\* const language = lang || "plaintext"   (line 76)
DeclaredLanguage(lang) == IF lang # <<>> THEN lang ELSE PLAINTEXT

\* const normalizedLang = langMap[language] || language   (line 86)
NormalizedLang(language) ==
    IF LangMapLookup(language) # <<>> THEN LangMapLookup(language) ELSE language

\* the normalized language passed on without the test for support
FinalLangUnchecked(language) == NormalizedLang(language)

\* const finalLang = supportedLangs.includes(normalizedLang) ? ... (lines 89-90)
FinalLang(language) ==
    IF NormalizedLang(language) \in LoadedLanguages
    THEN NormalizedLang(language)
    ELSE PLAINTEXT

\* text.replace(/&/g, "&amp;").replace(/</g, "&lt;").replace(/>/g, "&gt;")
\* the fallback without the three replace calls
EscapeHtmlNone(text) == text

\* text.replace(/&/g, "&amp;").replace(/</g, "&lt;").replace(/>/g, "&gt;")
EscapeHtml(text) ==
    [i \in 1..Len(text) |->
        CASE text[i] = "&" -> "&amp;"
          [] text[i] = "<" -> "&lt;"
          [] text[i] = ">" -> "&gt;"
          [] OTHER -> text[i]]

\* renderer.code (lines 74-116); faulty: hl.codeToHtml throws
RenderCode(token, faulty) ==
    LET language == DeclaredLanguage(token.lang)
        finalLang == FinalLang(language)
    IN  IF ~faulty
        THEN [kind |-> "code-block", dataLanguage |-> language, headerLang |-> language,
              highlightedAs |-> finalLang, text |-> token.text,
              href |-> <<>>, title |-> <<>>, target |-> "", rel |-> ""]
        ELSE [kind |-> "pre", dataLanguage |-> <<>>, headerLang |-> language,
              highlightedAs |-> <<>>, text |-> EscapeHtml(token.text),
              href |-> <<>>, title |-> <<>>, target |-> "", rel |-> ""]

HTTP == <<"h","t","t","p",":","/","/">>
HTTPS == <<"h","t","t","p","s",":","/","/">>

\* the prefixing without the test for "//"
FinalHrefAnySlash(href) ==
    IF StartsWith(href, <<"/">>) THEN BASE_PATH \o href ELSE href

\* let finalHref = href; if (href.startsWith("/") && !href.startsWith("//")) ...
FinalHref(href) ==
    IF StartsWith(href, <<"/">>) /\ ~StartsWith(href, <<"/", "/">>)
    THEN BASE_PATH \o href
    ELSE href

\* if (href.startsWith("http://") || href.startsWith("https://"))
IsExternal(href) == StartsWith(href, HTTP) \/ StartsWith(href, HTTPS)

\* renderer.link (lines 119-136)
RenderLink(token) ==
    [kind |-> "a", dataLanguage |-> <<>>, headerLang |-> <<>>, highlightedAs |-> <<>>,
     text |-> token.text, href |-> FinalHref(token.href), title |-> token.title,
     target |-> IF IsExternal(token.href) THEN "_blank" ELSE "",
     rel |-> IF IsExternal(token.href) THEN "noopener noreferrer" ELSE ""]

\* marked's own rendering of the tokens the renderer does not override
RenderDefault(token) ==
    [kind |-> IF token.type = "heading" THEN "h1" ELSE "p",
     dataLanguage |-> <<>>, headerLang |-> <<>>, highlightedAs |-> <<>>,
     text |-> token.text, href |-> <<>>, title |-> <<>>, target |-> "", rel |-> ""]

RenderToken(token, faulty) ==
    CASE token.type = "code" -> RenderCode(token, faulty)
      [] token.type = "link" -> RenderLink(token)
      [] OTHER -> RenderDefault(token)

\* marked.parse(content, { renderer }) on the body's tokens
MarkedParse(body, faulty) == [i \in 1..Len(body) |-> RenderToken(body[i], faulty)]

----------------------------------------------------------------------------
\* Content files.  A file is [name, readable, fm, body]: fm is its
\* front-matter block, [kind, data] with kind "absent", "yaml" or
\* "malformed"; body is the list of markdown tokens after the block.
\* data holds every key the parsers read, each as <<>> (key absent) or <<v>>.

NoData ==
    [title |-> <<>>, impact |-> <<>>, impactDescription |-> <<>>, tags |-> <<>>,
     description |-> <<>>, order |-> <<>>, category |-> <<>>, difficulty |-> <<>>,
     estimatedTime |-> <<>>, prerequisites |-> <<>>, relatedRules |-> <<>>]

\* a YAML scalar string and a YAML list, as values of the `tags` key
TagString(chars) == [type |-> "string", value |-> chars]
TagArray(items) == [type |-> "array", value |-> items]

\* matter(fileContent) of gray-matter: no block gives data = {}; a block that
\* is not valid YAML makes the YAML engine throw, and matter does not catch.
matter(file) ==
    CASE file.fm.kind = "absent" -> [threw |-> FALSE, data |-> NoData, content |-> file.body]
      [] file.fm.kind = "malformed" -> [threw |-> TRUE, data |-> NoData, content |-> <<>>]
      [] OTHER -> [threw |-> FALSE, data |-> file.fm.data, content |-> file.body]

\* `x || d` for a string held as a character sequence
OrSeq(opt, d) == IF opt # <<>> /\ opt[1] # <<>> THEN opt[1] ELSE d

\* `x || d` for a string held as a TLA+ string
OrStr(opt, d) == IF opt # <<>> /\ opt[1] # "" THEN opt[1] ELSE d

\* `x || d` for a number: 0 is falsy
OrNum(opt, d) == IF opt # <<>> /\ opt[1] # 0 THEN opt[1] ELSE d

\* String.prototype.split(c)
RECURSIVE Split(_, _)
Split(s, c) ==
    IF IndexOf(s, c) = 0 THEN <<s>>
    ELSE <<SubSeq(s, 1, IndexOf(s, c) - 1)>> \o Split(SubSeq(s, IndexOf(s, c) + 1, Len(s)), c)

\* String.prototype.trim
RECURSIVE Trim(_)
Trim(s) ==
    IF s = <<>> THEN s
    ELSE IF s[1] = " " THEN Trim(Tail(s))
    ELSE IF s[Len(s)] = " " THEN Trim(SubSeq(s, 1, Len(s) - 1))
    ELSE s

\* data.tags ? data.tags.split(",").map((t) => t.trim()) : []   (line 249)
\* An array is truthy and has no split method: the call throws a TypeError.
TagsThrow(opt) == opt # <<>> /\ opt[1].type = "array"

TagsOf(opt) ==
    IF opt = <<>> \/ opt[1].value = <<>> THEN <<>>
    ELSE LET parts == Split(opt[1].value, ",")
         IN  [i \in 1..Len(parts) |-> Trim(parts[i])]

\* files.filter((f) => f.endsWith(".md") && !f.startsWith("_"))   (lines 221-223)
IsRuleCandidate(name) == EndsWith(name, DOT_MD) /\ ~StartsWith(name, <<"_">>)

\* files.filter((f) => f.endsWith(".md"))   (lines 268, 306)
IsContentCandidate(name) == EndsWith(name, DOT_MD)

\* sections.find((s) => prefix.startsWith(s.id)): a comparison looser than ===
FindSectionByStart(secs, prefix) ==
    IF \E i \in 1..Len(secs) : StartsWith(prefix, secs[i].id)
    THEN << secs[CHOOSE i \in 1..Len(secs) :
                   StartsWith(prefix, secs[i].id)
                   /\ \A j \in 1..(i - 1) : ~StartsWith(prefix, secs[j].id)] >>
    ELSE <<>>

\* sections.find((s) => s.id === prefix): <<>> or <<the first such section>>
FindSection(secs, prefix) ==
    IF \E i \in 1..Len(secs) : secs[i].id = prefix
    THEN << secs[CHOOSE i \in 1..Len(secs) :
                   secs[i].id = prefix /\ \A j \in 1..(i - 1) : secs[j].id # prefix] >>
    ELSE <<>>

\* filename.split("-")[0]   (line 232)
RulePrefix(name) == SplitFirst(name, "-")

\* the object pushed at lines 243-252
RuleItem(file, data, section, faulty) ==
    [slug |-> StripMd(file.name),
     filename |-> file.name,
     title |-> OrSeq(data.title, StripMd(file.name)),
     impact |-> OrStr(data.impact, section.impact),
     impactDescription |-> OrStr(data.impactDescription, ""),
     tags |-> TagsOf(data.tags),
     section |-> section.id,
     content |-> MarkedParse(file.body, faulty)]

\* The for loop of parseRules (lines 227-253) from file i on; acc is
\* [threw, error, value, warnings].
RECURSIVE RulesLoop(_, _, _, _, _)
RulesLoop(files, i, secs, faulty, acc) ==
    IF i > Len(files) THEN acc
    ELSE LET file == files[i]
             m == matter(file)
             found == FindSection(secs, RulePrefix(file.name))
         IN  IF ~file.readable
             THEN [acc EXCEPT !.threw = TRUE, !.error = "readFileSync"]
             ELSE IF m.threw
             THEN [acc EXCEPT !.threw = TRUE, !.error = "YAMLException"]
             ELSE IF found = <<>>
             THEN RulesLoop(files, i + 1, secs, faulty,
                            [acc EXCEPT !.warnings = Append(@, file.name)])
             ELSE IF TagsThrow(m.data.tags)
             THEN [acc EXCEPT !.threw = TRUE, !.error = "TypeError"]
             ELSE RulesLoop(files, i + 1, secs, faulty,
                            [acc EXCEPT !.value = Append(@, RuleItem(file, m.data, found[1], faulty))])

\* parseRules(sections), after getHighlighter()
parseRules(dir, secs, faulty) ==
    IF ~dir.exists
    THEN [threw |-> TRUE, error |-> "ENOENT rules", value |-> <<>>, warnings |-> <<>>]
    ELSE RulesLoop(SelectSeq(dir.files, LAMBDA f : IsRuleCandidate(f.name)), 1, secs, faulty,
                   [threw |-> FALSE, error |-> "", value |-> <<>>, warnings |-> <<>>])

\* `x || []` for a YAML list
OrList(opt) == IF opt # <<>> THEN opt[1] ELSE <<>>

\* data.order || 999   (lines 284, 322)
OrderOf(data) == OrNum(data.order, DefaultOrder)

\* the object pushed at lines 279-290
GuideItem(file, data, faulty) ==
    [slug |-> StripMd(file.name),
     filename |-> file.name,
     title |-> OrSeq(data.title, StripMd(file.name)),
     description |-> OrStr(data.description, ""),
     order |-> OrderOf(data),
     category |-> OrStr(data.category, "general"),
     difficulty |-> OrStr(data.difficulty, "beginner"),
     estimatedTime |-> OrStr(data.estimatedTime, ""),
     prerequisites |-> OrList(data.prerequisites),
     content |-> MarkedParse(file.body, faulty)]

\* the object pushed at lines 317-326
ConceptItem(file, data, faulty) ==
    [slug |-> StripMd(file.name),
     filename |-> file.name,
     title |-> OrSeq(data.title, StripMd(file.name)),
     description |-> OrStr(data.description, ""),
     order |-> OrderOf(data),
     category |-> OrStr(data.category, "general"),
     relatedRules |-> OrList(data.relatedRules),
     content |-> MarkedParse(file.body, faulty)]

\* The for loops of parseGuides (lines 271-291) and parseConcepts (lines
\* 309-327) from file i on; kind selects the object pushed.
RECURSIVE ContentLoop(_, _, _, _, _)
ContentLoop(files, i, kind, faulty, acc) ==
    IF i > Len(files) THEN acc
    ELSE LET file == files[i]
             m == matter(file)
         IN  IF ~file.readable
             THEN [acc EXCEPT !.threw = TRUE, !.error = "readFileSync"]
             ELSE IF m.threw
             THEN [acc EXCEPT !.threw = TRUE, !.error = "YAMLException"]
             ELSE ContentLoop(files, i + 1, kind, faulty,
                      [acc EXCEPT !.value =
                          Append(@, IF kind = "guide" THEN GuideItem(file, m.data, faulty)
                                    ELSE ConceptItem(file, m.data, faulty))])

\* a sort by order that is not stable: an item goes before the items of its
\* own order that were listed before it
RECURSIVE InsertBeforeTies(_, _)
InsertBeforeTies(x, s) ==
    IF s = <<>> THEN <<x>>
    ELSE IF x.order <= s[1].order THEN <<x>> \o s
    ELSE <<s[1]>> \o InsertBeforeTies(x, Tail(s))

RECURSIVE SortContentUnstable(_)
SortContentUnstable(items) ==
    IF items = <<>> THEN <<>>
    ELSE InsertBeforeTies(items[Len(items)],
                          SortContentUnstable(SubSeq(items, 1, Len(items) - 1)))

\* return guides.sort((a, b) => a.order - b.order)   (lines 293, 329)
SortContent(items) == SortByOrder(items)

\* the parser without the existsSync test: readdirSync throws on a missing
\* directory
parseContentUnguarded(dir, kind, faulty) ==
    IF ~dir.exists
    THEN [threw |-> TRUE, error |-> "ENOENT scandir", value |-> <<>>, warnings |-> <<>>,
          usedHl |-> TRUE]
    ELSE LET r == ContentLoop(SelectSeq(dir.files, LAMBDA f : IsContentCandidate(f.name)),
                              1, kind, faulty,
                              [threw |-> FALSE, error |-> "", value |-> <<>>,
                               warnings |-> <<>>, usedHl |-> TRUE])
         IN  IF r.threw THEN r ELSE [r EXCEPT !.value = SortContent(@)]

\* parseGuides() and parseConcepts().  called: whether getHighlighter() ran.
parseContent(dir, kind, faulty) ==
    IF ~dir.exists
    THEN [threw |-> FALSE, error |-> "", value |-> <<>>, warnings |-> <<>>, usedHl |-> FALSE]
    ELSE LET r == ContentLoop(SelectSeq(dir.files, LAMBDA f : IsContentCandidate(f.name)),
                              1, kind, faulty,
                              [threw |-> FALSE, error |-> "", value |-> <<>>,
                               warnings |-> <<>>, usedHl |-> TRUE])
         IN  IF r.threw THEN r ELSE [r EXCEPT !.value = SortContent(@)]

parseGuides(dir, faulty) == parseContent(dir, "guide", faulty)

parseConcepts(dir, faulty) == parseContent(dir, "concept", faulty)

----------------------------------------------------------------------------
\* generateOutput

\* the group left in the order the rules were parsed in
LeaveUnsorted(group) == group

\* rulesBySection.get(id) after the sort of lines 345-347; <<>> for `|| []`
SortSectionRules(group) == SortByTitle(group)

RulesOfSection(rs, id) == SortSectionRules(SelectSeq(rs, LAMBDA r : r.section = id))

\* sections.sort((a, b) => a.order - b.order)   (line 350)
SortSections(secs) == SortByOrder(secs)

\* a map that keeps only the sections some rule belongs to
AttachRulesToUsed(secs, rs) ==
    LET used == SelectSeq(secs, LAMBDA x : \E k \in 1..Len(rs) : rs[k].section = x.id)
    IN  [i \in 1..Len(used) |->
            [order |-> used[i].order, id |-> used[i].id, title |-> used[i].title,
             impact |-> used[i].impact, description |-> used[i].description,
             rules |-> LET g == SortByTitle(SelectSeq(rs, LAMBDA r : r.section = used[i].id))
                       IN  [k \in 1..Len(g) |-> [slug |-> g[k].slug, title |-> g[k].title]]]]

\* .map((section) => ({ ...section, rules: [...] }))   (lines 351-357)
AttachRules(secs, rs) ==
    [i \in 1..Len(secs) |->
        [order |-> secs[i].order, id |-> secs[i].id, title |-> secs[i].title,
         impact |-> secs[i].impact, description |-> secs[i].description,
         rules |-> LET g == RulesOfSection(rs, secs[i].id)
                   IN  [k \in 1..Len(g) |-> [slug |-> g[k].slug, title |-> g[k].title]]]]

SectionsWithRules(secs, rs) == AttachRules(SortSections(secs), rs)

\* Object.fromEntries(items.map((r) => [r.slug, r])): the last entry of a key wins
FromEntries(items) ==
    [k \in {items[i].slug : i \in 1..Len(items)} |->
        items[CHOOSE i \in 1..Len(items) :
                 items[i].slug = k /\ \A j \in (i + 1)..Len(items) : items[j].slug # k]]

\* the navigation list views of lines 421-447
GuidesList(gs) ==
    [i \in 1..Len(gs) |->
        [slug |-> gs[i].slug, title |-> gs[i].title, description |-> gs[i].description,
         order |-> gs[i].order, category |-> gs[i].category,
         difficulty |-> gs[i].difficulty, estimatedTime |-> gs[i].estimatedTime]]

ConceptsList(cs) ==
    [i \in 1..Len(cs) |->
        [slug |-> cs[i].slug, title |-> cs[i].title, description |-> cs[i].description,
         order |-> cs[i].order, category |-> cs[i].category]]

\* the sections added to what the output file already holds
OutputAppended(secs, rs, gs, cs) ==
    [sections |-> outputFile.content.sections \o SectionsWithRules(secs, rs),
     rules |-> FromEntries(rs),
     guides |-> FromEntries(gs),
     guidesList |-> GuidesList(gs),
     concepts |-> FromEntries(cs),
     conceptsList |-> ConceptsList(cs)]

\* the data interpolated into the template of lines 363-448
OutputOf(secs, rs, gs, cs) ==
    [sections |-> SectionsWithRules(secs, rs),
     rules |-> FromEntries(rs),
     guides |-> FromEntries(gs),
     guidesList |-> GuidesList(gs),
     concepts |-> FromEntries(cs),
     conceptsList |-> ConceptsList(cs)]

NoOutput ==
    [sections |-> <<>>, rules |-> <<>>, guides |-> <<>>, guidesList |-> <<>>,
     concepts |-> <<>>, conceptsList |-> <<>>]

----------------------------------------------------------------------------
\* main() and the process around it

\* getHighlighter() without the test of line 62: a new engine on every call
GetHighlighterUnmemoized ==
    /\ highlighter' = "instance"
    /\ hlCreated' = hlCreated + 1

\* getHighlighter() (lines 61-69): create on the first call only
GetHighlighter ==
    /\ highlighter' = "instance"
    /\ hlCreated' = IF highlighter = "null" THEN hlCreated + 1 ELSE hlCreated

\* const sections = parseSections();   (line 465)
ParseSectionsStep ==
    /\ pc = "start"
    /\ phaseLog' = Append(phaseLog, "sections")
    /\ LET r == parseSections(sectionsFile) IN
       IF r.threw
       THEN /\ pc' = "rejected"
            /\ rejection' = r.error
            /\ UNCHANGED sections
       ELSE /\ pc' = "sections"
            /\ sections' = r.value
            /\ UNCHANGED rejection
    /\ UNCHANGED <<sectionsFile, rulesDir, guidesDir, conceptsDir, outputFile, rules,
                   guides, concepts, highlighter, hlCreated, hlFaulty, warnings,
                   errorLog, exitCode, renderVars, runVars, siteVars, appVars>>

\* const rules = await parseRules(sections);   (line 466)
ParseRulesStep ==
    /\ pc = "sections"
    /\ phaseLog' = Append(phaseLog, "rules")
    /\ GetHighlighter
    /\ LET r == parseRules(rulesDir, sections, hlFaulty) IN
       /\ warnings' = warnings \o r.warnings
       /\ IF r.threw
          THEN /\ pc' = "rejected"
               /\ rejection' = r.error
               /\ UNCHANGED rules
          ELSE /\ pc' = "rules"
               /\ rules' = r.value
               /\ UNCHANGED rejection
    /\ UNCHANGED <<sectionsFile, rulesDir, guidesDir, conceptsDir, outputFile, sections,
                   guides, concepts, hlFaulty, errorLog, exitCode, renderVars, runVars, siteVars, appVars>>

\* const guides = await parseGuides();   (line 467)
ParseGuidesStep ==
    /\ pc = "rules"
    /\ phaseLog' = Append(phaseLog, "guides")
    /\ LET r == parseGuides(guidesDir, hlFaulty) IN
       /\ IF r.usedHl THEN GetHighlighter ELSE UNCHANGED <<highlighter, hlCreated>>
       /\ IF r.threw
          THEN /\ pc' = "rejected"
               /\ rejection' = r.error
               /\ UNCHANGED guides
          ELSE /\ pc' = "guides"
               /\ guides' = r.value
               /\ UNCHANGED rejection
    /\ UNCHANGED <<sectionsFile, rulesDir, guidesDir, conceptsDir, outputFile, sections,
                   rules, concepts, hlFaulty, warnings, errorLog, exitCode, renderVars, runVars, siteVars, appVars>>

\* const concepts = await parseConcepts();   (line 468)
ParseConceptsStep ==
    /\ pc = "guides"
    /\ phaseLog' = Append(phaseLog, "concepts")
    /\ LET r == parseConcepts(conceptsDir, hlFaulty) IN
       /\ IF r.usedHl THEN GetHighlighter ELSE UNCHANGED <<highlighter, hlCreated>>
       /\ IF r.threw
          THEN /\ pc' = "rejected"
               /\ rejection' = r.error
               /\ UNCHANGED concepts
          ELSE /\ pc' = "concepts"
               /\ concepts' = r.value
               /\ UNCHANGED rejection
    /\ UNCHANGED <<sectionsFile, rulesDir, guidesDir, conceptsDir, outputFile, sections,
                   rules, guides, hlFaulty, warnings, errorLog, exitCode, renderVars, runVars, siteVars, appVars>>

\* generateOutput called while parseConcepts is still pending
GenerateOutputUnawaited ==
    /\ pc \in {"guides", "concepts"}
    /\ phaseLog' = Append(phaseLog, "output")
    /\ outputFile' = [exists |-> TRUE, writes |-> outputFile.writes + 1,
                      content |-> OutputOf(sections, rules, guides, concepts)]
    /\ sections' = SortSections(sections)
    /\ pc' = "resolved"
    /\ UNCHANGED <<sectionsFile, rulesDir, guidesDir, conceptsDir, rules, guides,
                   concepts, highlighter, hlCreated, hlFaulty, warnings, errorLog,
                   rejection, exitCode, renderVars, runVars, siteVars, appVars>>

\* generateOutput(sections, rules, guides, concepts);   (line 469)
\* sections.sort sorts the caller's array in place; writeFileSync overwrites.
GenerateOutputStep ==
    /\ pc = "concepts"
    /\ phaseLog' = Append(phaseLog, "output")
    /\ outputFile' = [exists |-> TRUE, writes |-> outputFile.writes + 1,
                      content |-> OutputOf(sections, rules, guides, concepts)]
    /\ sections' = SortSections(sections)
    /\ pc' = "resolved"
    /\ UNCHANGED <<sectionsFile, rulesDir, guidesDir, conceptsDir, rules, guides,
                   concepts, highlighter, hlCreated, hlFaulty, warnings, errorLog,
                   rejection, exitCode, renderVars, runVars, siteVars, appVars>>

\* a handler that writes out what had been parsed when the run was rejected
CatchErrorWritingOutput ==
    /\ pc = "rejected"
    /\ errorLog' = Append(errorLog, rejection)
    /\ outputFile' = [exists |-> TRUE, writes |-> outputFile.writes + 1,
                      content |-> OutputOf(sections, rules, guides, concepts)]
    /\ pc' = "handled"
    /\ UNCHANGED <<phaseLog, sectionsFile, rulesDir, guidesDir, conceptsDir, sections,
                   rules, guides, concepts, highlighter, hlCreated, hlFaulty, warnings,
                   rejection, exitCode, renderVars, runVars, siteVars, appVars>>

\* main().catch(console.error);   (line 472)
CatchError ==
    /\ pc = "rejected"
    /\ errorLog' = Append(errorLog, rejection)
    /\ pc' = "handled"
    /\ UNCHANGED <<phaseLog, sectionsFile, rulesDir, guidesDir, conceptsDir, outputFile, sections,
                   rules, guides, concepts, highlighter, hlCreated, hlFaulty, warnings,
                   rejection, exitCode, renderVars, runVars, siteVars, appVars>>

\* The promise chain of line 472 has settled without an unhandled rejection,
\* nothing sets process.exitCode or calls process.exit: the process ends 0.
ExitStatus == 0

ProcessExit ==
    /\ pc \in {"resolved", "handled"}
    /\ exitCode' = ExitStatus
    /\ pc' = "exited"
    /\ UNCHANGED <<phaseLog, sectionsFile, rulesDir, guidesDir, conceptsDir, outputFile, sections,
                   rules, guides, concepts, highlighter, hlCreated, hlFaulty, warnings,
                   errorLog, rejection, renderVars, runVars, siteVars, appVars>>

Next ==
    \/ ParseSectionsStep
    \/ ParseRulesStep
    \/ ParseGuidesStep
    \/ ParseConceptsStep
    \/ GenerateOutputStep
    \/ CatchError
    \/ ProcessExit

----------------------------------------------------------------------------
\* Inputs

\* all sequences over S of length at most n
SeqsUpTo(S, n) == UNION {[1..k -> S] : k \in 0..n}

\* a directory listing holds every name once
DistinctNames(files) ==
    \A i, j \in 1..Len(files) : i # j => files[i].name # files[j].name

File(name, readable, kind, data, body) ==
    [name |-> name, readable |-> readable, fm |-> [kind |-> kind, data |-> data],
     body |-> body]

SEC_A == <<"a">>
SEC_B == <<"b">>

\* a code block, an internal link and a heading
SampleBody ==
    << HeadingToken(<<"T">>), CodeToken(<<"x", "<", "y">>, TS),
       LinkToken(<<"/", "r">>, <<>>, <<"r">>) >>

\* rule files: candidates of sections a and b, a candidate of no section, a
\* candidate without '-', and two non-candidates
RuleFiles ==
    { File(<<"a","-","x",".","m","d">>, TRUE, "absent", NoData, <<>>),
      File(<<"a","-","x",".","m","d">>, TRUE, "yaml", [NoData EXCEPT !.title = <<<<"b">>>>], SampleBody),
      File(<<"a","-","y",".","m","d">>, TRUE, "yaml", [NoData EXCEPT !.title = <<<<"A">>>>], <<>>),
      File(<<"a","-","y",".","m","d">>, TRUE, "yaml",
           [NoData EXCEPT !.tags = <<TagArray(<<<<"t">>>>)>>], <<>>),
      File(<<"a","-","t",".","m","d">>, TRUE, "yaml", [NoData EXCEPT !.title = <<<<"B">>>>], <<>>),
      File(<<"b","-","x",".","m","d">>, TRUE, "yaml",
           [NoData EXCEPT !.title = <<<<"B">>>>, !.impact = <<"LOW">>,
                          !.tags = <<TagString(<<"t", ",", " ", "d">>)>>], <<>>),
      File(<<"b","-","y",".","m","d">>, FALSE, "absent", NoData, <<>>),
      File(<<"c","-","x",".","m","d">>, TRUE, "absent", NoData, <<>>),
      File(<<"c","-","y",".","m","d">>, TRUE, "malformed", NoData, <<>>),
      File(<<"a",".","m","d">>, TRUE, "absent", NoData, <<>>),
      File(<<"_","a","-","x",".","m","d">>, TRUE, "malformed", NoData, <<>>),
      File(<<"a","-","x",".","t">>, FALSE, "absent", NoData, <<>>) }

RuleDirs ==
    {[exists |-> TRUE, files |-> fs] :
        fs \in {f \in SeqsUpTo(RuleFiles, MaxRuleFiles) : DistinctNames(f)}}

MissingDir == [exists |-> FALSE, files |-> <<>>]

\* section index files
SectionLines ==
    { HeaderLine(2, "Alpha", SEC_A), HeaderLine(1, "Beta", SEC_B),
      HeaderLine(1, "Again", SEC_A),
      NoIdLine(3, "Gamma"), ImpactLine("HIGH"), ImpactLine("LOW"), DescLine("text"),
      OtherLine }

SectionFiles ==
    {[exists |-> TRUE, lines |-> ls] : ls \in SeqsUpTo(SectionLines, MaxSectionLines)}

MissingFile == [exists |-> FALSE, lines |-> <<>>]

\* guide and concept files: the i-th entry of a listing is named ContentNames[i]
ContentNames ==
    << <<"x",".","m","d">>, <<"y",".","m","d">>, <<"t",".","m","d">>,
       <<"d",".","m","d">>, <<"m",".","m","d">> >>

ContentFrontMatters ==
    { [kind |-> "absent", data |-> NoData],
      [kind |-> "yaml", data |-> [NoData EXCEPT !.order = <<0>>]],
      [kind |-> "yaml", data |-> [NoData EXCEPT !.order = <<5>>]],
      [kind |-> "yaml", data |-> [NoData EXCEPT !.order = <<10>>, !.title = <<<<"A">>>>,
                                               !.prerequisites = <<<<<<"x">>, <<"q">>>>>>,
                                               !.relatedRules = <<<<<<"a","-","x">>>>>>]],
      [kind |-> "malformed", data |-> NoData] }

ContentDirs ==
    {[exists |-> TRUE,
      files |-> [i \in 1..Len(fms) |->
                    [name |-> ContentNames[i], readable |-> TRUE, fm |-> fms[i],
                     body |-> IF i = 1 THEN SampleBody ELSE <<>>]]] :
        fms \in SeqsUpTo(ContentFrontMatters, MaxGuideFiles)}

\* a few directories for the runs that are about something else
FewContentDirs ==
    { MissingDir,
      [exists |-> TRUE, files |-> <<>>],
      [exists |-> TRUE,
       files |-> << File(<<"x",".","m","d">>, TRUE, "yaml", [NoData EXCEPT !.order = <<5>>], SampleBody),
                    File(<<"n",".","t">>, FALSE, "absent", NoData, <<>>) >>],
      [exists |-> TRUE,
       files |-> << File(<<"x",".","m","d">>, TRUE, "absent", NoData, <<>>),
                    File(<<"y",".","m","d">>, TRUE, "malformed", NoData, <<>>) >>] }

FewSectionFiles ==
    { [exists |-> TRUE, lines |-> <<HeaderLine(1, "Alpha", SEC_A), ImpactLine("HIGH")>>],
      [exists |-> TRUE, lines |-> <<HeaderLine(2, "Alpha", SEC_A), HeaderLine(1, "Beta", SEC_B)>>] }

FewRuleDirs ==
    {[exists |-> TRUE, files |-> fs] :
        fs \in {f \in SeqsUpTo(RuleFiles, 1) : TRUE}}
    \cup
    {[exists |-> TRUE,
      files |-> << File(<<"a","-","x",".","m","d">>, TRUE, "absent", NoData, SampleBody), f >>] :
        f \in {g \in RuleFiles : g.name # <<"a","-","x",".","m","d">>}}

\* the output file before the run: absent, or left by an earlier run
\* what an earlier run over other inputs wrote
StaleOutput ==
    [NoOutput EXCEPT !.sections =
        << [order |-> 9, id |-> SEC_A, title |-> "Stale", impact |-> "",
            description |-> "", rules |-> <<>>] >>]

OutputFilesBefore ==
    { [exists |-> FALSE, writes |-> 0, content |-> NoOutput],
      [exists |-> TRUE, writes |-> 0, content |-> NoOutput],
      [exists |-> TRUE, writes |-> 0, content |-> StaleOutput] }

NoToken == ParagraphToken(<<>>)

NoHtml ==
    [kind |-> "none", dataLanguage |-> <<>>, headerLang |-> <<>>, highlightedAs |-> <<>>,
     text |-> <<>>, href |-> <<>>, title |-> <<>>, target |-> "", rel |-> ""]

\* no route has been served yet
NoRoute == [page |-> "none", slug |-> <<>>]

NoView ==
    [status |-> "none", prerequisites |-> <<>>, relatedRules |-> <<>>,
     currentIndex |-> -1, prev |-> <<>>, next |-> <<>>]

\* there has been no earlier run
NoPreviousRun == [exists |-> FALSE, writes |-> 0, content |-> NoOutput]

\* no login yet
NoLogin == [kind |-> "none", token |-> <<>>]

\* the API and the seed script are not running
BackendOff ==
    /\ users = <<>>
    /\ usersSeed = <<>>
    /\ loginDto = <<>>
    /\ loginResult = NoLogin
    /\ seedPc = "off"
    /\ seedIndex = 0
    /\ seedSteps = <<>>
    /\ seedError = ""
    /\ seedLog = <<>>
    /\ seedExit = -1
    /\ appOpen = FALSE
    /\ seedRun = 0

\* no page of the site is open
ThemeOff ==
    /\ themePc = "off"
    /\ theme = "system"
    /\ resolvedTheme = "light"
    /\ storedTheme = <<>>
    /\ osDark = FALSE
    /\ rootDark = FALSE
    /\ effectsPending = FALSE
    /\ listenerTheme = <<>>
    /\ trail = <<>>

\* the state of the module before main() runs
RunStart ==
    /\ pc = "start"
    /\ sections = <<>>
    /\ rules = <<>>
    /\ guides = <<>>
    /\ concepts = <<>>
    /\ highlighter = "null"
    /\ hlCreated = 0
    /\ warnings = <<>>
    /\ errorLog = <<>>
    /\ rejection = ""
    /\ exitCode = -1
    /\ phaseLog = <<>>
    /\ run = 1
    /\ previousOutput = NoPreviousRun
    /\ tok = NoToken
    /\ html = NoHtml
    /\ route = NoRoute
    /\ view = NoView
    /\ BackendOff
    /\ ThemeOff

\* _sections.md lives in the rules directory
FileSystemOk == sectionsFile.exists => rulesDir.exists

\* The whole pipeline on small inputs of every kind
Init ==
    /\ sectionsFile \in FewSectionFiles \cup {MissingFile}
    /\ rulesDir \in FewRuleDirs \cup {MissingDir}
    /\ FileSystemOk
    /\ guidesDir \in FewContentDirs
    /\ conceptsDir \in FewContentDirs
    /\ outputFile \in OutputFilesBefore
    /\ hlFaulty \in BOOLEAN
    /\ RunStart

Spec == Init /\ [][Next]_vars

\* section indexes for the rules side: sections out of order, one id twice,
\* two sections of one ordinal, one section, none
RuleSectionFiles ==
    { [exists |-> TRUE, lines |-> <<HeaderLine(2, "Alpha", SEC_A), ImpactLine("HIGH"),
                                    HeaderLine(1, "Beta", SEC_B)>>],
      [exists |-> TRUE, lines |-> <<HeaderLine(2, "Alpha", SEC_A), HeaderLine(1, "Again", SEC_A)>>],
      [exists |-> TRUE, lines |-> <<HeaderLine(1, "Beta", SEC_B), DescLine("text"),
                                    HeaderLine(1, "Again", SEC_A)>>],
      [exists |-> TRUE, lines |-> <<OtherLine, HeaderLine(1, "Beta", SEC_B)>>],
      [exists |-> TRUE, lines |-> <<NoIdLine(3, "Gamma")>>] }

\* The rules side in depth: every rules listing within the bounds
InitRules ==
    /\ sectionsFile \in RuleSectionFiles
    /\ rulesDir \in RuleDirs
    /\ guidesDir \in {MissingDir, [exists |-> TRUE, files |-> <<>>]}
    /\ conceptsDir = MissingDir
    /\ outputFile = [exists |-> FALSE, writes |-> 0, content |-> NoOutput]
    /\ hlFaulty = FALSE
    /\ RunStart

SpecRules == InitRules /\ [][Next]_vars

\* The guides and concepts side in depth: both directories hold the same
\* listing, every listing within the bounds
InitContent ==
    /\ sectionsFile \in {MissingFile, [exists |-> TRUE, lines |-> <<HeaderLine(1, "Alpha", SEC_A)>>]}
    /\ rulesDir = IF sectionsFile.exists THEN [exists |-> TRUE, files |-> <<>>] ELSE MissingDir
    /\ guidesDir \in ContentDirs
    /\ conceptsDir = guidesDir
    /\ outputFile = [exists |-> FALSE, writes |-> 0, content |-> NoOutput]
    /\ hlFaulty = FALSE
    /\ RunStart

SpecContent == InitContent /\ [][Next]_vars

----------------------------------------------------------------------------
\* The renderer on single tokens

Hrefs ==
    { p \o t :
        p \in { <<>>, <<"/">>, <<"/", "/">>, HTTP, HTTPS, <<"h","t","t","p",":","/">>,
                <<"#">>, <<"x">>, <<"x","/">> },
        t \in SeqsUpTo({"/", "r"}, MaxHrefTail) }

Languages ==
    LoadedLanguages \cup
    { <<>>, TS, JS, SH, SHELL, YML, CONSTRUCTOR, <<"c","o","b","o","l">>,
      <<"T","S">>, <<"t","s","x">> }

RenderTokens ==
    {CodeToken(text, l) : text \in {<<>>, <<"a", "<", "&", ">">>}, l \in Languages}
    \cup {LinkToken(h, t, <<"r">>) : h \in Hrefs, t \in {<<>>, <<"T">>}}

InitRender ==
    /\ tok \in RenderTokens
    /\ html = NoHtml
    /\ hlFaulty \in BOOLEAN
    /\ pc = "render"
    /\ sectionsFile = MissingFile
    /\ rulesDir = MissingDir
    /\ guidesDir = MissingDir
    /\ conceptsDir = MissingDir
    /\ outputFile = [exists |-> FALSE, writes |-> 0, content |-> NoOutput]
    /\ sections = <<>>
    /\ rules = <<>>
    /\ guides = <<>>
    /\ concepts = <<>>
    /\ highlighter = "instance"
    /\ hlCreated = 1
    /\ warnings = <<>>
    /\ errorLog = <<>>
    /\ rejection = ""
    /\ exitCode = -1
    /\ phaseLog = <<>>
    /\ run = 1
    /\ previousOutput = NoPreviousRun
    /\ route = NoRoute
    /\ view = NoView
    /\ BackendOff
    /\ ThemeOff

\* marked calls renderer.code for a code token
RenderCodeStep ==
    /\ pc = "render"
    /\ tok.type = "code"
    /\ html = NoHtml
    /\ html' = RenderCode(tok, hlFaulty)
    /\ UNCHANGED <<pipeVars, tok, runVars, siteVars, appVars>>

\* marked calls renderer.link for a link token
RenderLinkStep ==
    /\ pc = "render"
    /\ tok.type = "link"
    /\ html = NoHtml
    /\ html' = RenderLink(tok)
    /\ UNCHANGED <<pipeVars, tok, runVars, siteVars, appVars>>

NextRender == RenderCodeStep \/ RenderLinkStep

SpecRender == InitRender /\ [][NextRender]_vars

----------------------------------------------------------------------------
\* The section index in depth: every index file within the bounds, with one
\* rules listing

SectionRulesDir ==
    [exists |-> TRUE,
     files |-> << File(<<"a","-","x",".","m","d">>, TRUE, "absent", NoData, <<>>),
                  File(<<"b","-","x",".","m","d">>, TRUE, "absent", NoData, <<>>) >>]

InitSections ==
    /\ sectionsFile \in SectionFiles \cup {MissingFile}
    /\ rulesDir = IF sectionsFile.exists THEN SectionRulesDir ELSE MissingDir
    /\ guidesDir = MissingDir
    /\ conceptsDir = MissingDir
    /\ outputFile = [exists |-> FALSE, writes |-> 0, content |-> NoOutput]
    /\ hlFaulty = FALSE
    /\ RunStart

SpecSections == InitSections /\ [][Next]_vars

----------------------------------------------------------------------------
\* The script run again on the same file system

\* A new process loads the module: `highlighter` is null again (line 59) and
\* main() is called afresh (line 472); the files are as the last run left them.
StartAgain ==
    /\ pc = "exited"
    /\ run < MaxRuns
    /\ run' = run + 1
    /\ previousOutput' = outputFile
    /\ outputFile' = [outputFile EXCEPT !.writes = 0]
    /\ pc' = "start"
    /\ sections' = <<>>
    /\ rules' = <<>>
    /\ guides' = <<>>
    /\ concepts' = <<>>
    /\ highlighter' = "null"
    /\ hlCreated' = 0
    /\ warnings' = <<>>
    /\ errorLog' = <<>>
    /\ rejection' = ""
    /\ exitCode' = -1
    /\ phaseLog' = <<>>
    /\ UNCHANGED <<sectionsFile, rulesDir, guidesDir, conceptsDir, hlFaulty, renderVars,
                   siteVars, appVars>>

NextRerun == Next \/ StartAgain

SpecRerun == Init /\ [][NextRerun]_vars

----------------------------------------------------------------------------
\* The site: the routes that import the generated module.  `generated` is
\* the module generateOutput wrote.

generated == outputFile.content

\* obj[key] on one of the generated object literals (rules, guides,
\* concepts): the own property if there is one, else what the key inherits
\* from Object.prototype ("constructor" is the function Object, which is
\* truthy and has none of the fields the pages read), else undefined.
ObjectGet(obj, key) ==
    IF key \in DOMAIN obj THEN [kind |-> "own", key |-> key]
    ELSE IF key = CONSTRUCTOR THEN [kind |-> "inherited", key |-> key]
    ELSE [kind |-> "undefined", key |-> key]

NotFoundView ==
    [status |-> "notFound", prerequisites |-> <<>>, relatedRules |-> <<>>,
     currentIndex |-> -1, prev |-> <<>>, next |-> <<>>]

\* the slug the page compares the list items with: item.slug of the loaded
\* item, undefined (<<>>) on a value that is no item of the content
SlugOf(found) == IF found.kind = "own" THEN <<found.key>> ELSE <<>>

\* list.findIndex((g) => g.slug === item.slug): the 0-based index of the
\* first match, -1 when there is none
FindIndex(list, slug) ==
    LET at == {j \in 1..Len(list) : <<list[j].slug>> = slug}
    IN  IF at = {} THEN -1 ELSE (CHOOSE j \in at : \A k \in at : j <= k) - 1

\* currentIndex > 0 ? list[currentIndex - 1] : null; the slug the link goes to
PrevOf(list, currentIndex) ==
    IF currentIndex > 0 THEN <<list[currentIndex].slug>> ELSE <<>>

\* currentIndex < list.length - 1 ? list[currentIndex + 1] : null
NextOf(list, currentIndex) ==
    IF currentIndex < Len(list) - 1 THEN <<list[currentIndex + 2].slug>> ELSE <<>>

\* guidesList.find((g) => g.slug === prereq)   (guides/$slug.tsx, line 84):
\* <<>> for undefined
FindGuide(prereq) ==
    LET at == {j \in 1..Len(generated.guidesList) : generated.guidesList[j].slug = prereq}
    IN  IF at = {} THEN <<>>
        ELSE <<generated.guidesList[CHOOSE j \in at : \A k \in at : j <= k]>>

\* one <li> of the prerequisites list (guides/$slug.tsx, lines 83-100): a
\* Link to the guide with its title, or the slug in a <span>
PrerequisiteItem(prereq) ==
    IF FindGuide(prereq) # <<>>
    THEN [text |-> FindGuide(prereq)[1].title, linkTo |-> <<prereq>>]
    ELSE [text |-> prereq, linkTo |-> <<>>]

\* GuidePage and its loader (guides/$slug.tsx, lines 7-13, 26-29 and 78-104)
GuidePage(slug) ==
    LET guide == ObjectGet(generated.guides, slug)
        currentIndex == FindIndex(generated.guidesList, SlugOf(guide)) IN
    CASE guide.kind = "undefined" -> NotFoundView
      [] guide.kind = "inherited" ->
            \* guide.prerequisites is undefined: the aside is not rendered
            [status |-> "ok", prerequisites |-> <<>>, relatedRules |-> <<>>,
             currentIndex |-> currentIndex,
             prev |-> PrevOf(generated.guidesList, currentIndex),
             next |-> NextOf(generated.guidesList, currentIndex)]
      [] OTHER ->
            LET ps == generated.guides[slug].prerequisites IN
            [status |-> "ok",
             prerequisites |-> [i \in 1..Len(ps) |-> PrerequisiteItem(ps[i])],
             relatedRules |-> <<>>,
             currentIndex |-> currentIndex,
             prev |-> PrevOf(generated.guidesList, currentIndex),
             next |-> NextOf(generated.guidesList, currentIndex)]

\* one <li> of the related rules (concepts/$slug.tsx, lines 82-92): a Link
\* with params.slug = rule.slug and the text rule.title; both are undefined
\* (<<>>) on a value that is no rule
RelatedRuleItem(found) ==
    IF found.kind = "own"
    THEN [slug |-> <<generated.rules[found.key].slug>>,
          title |-> <<generated.rules[found.key].title>>]
    ELSE [slug |-> <<>>, title |-> <<>>]

\* concept.relatedRules?.map((slug) => rules[slug]).filter(Boolean)
\* (concepts/$slug.tsx, lines 29-31)
RelatedRules(slugs) ==
    SelectSeq([i \in 1..Len(slugs) |-> ObjectGet(generated.rules, slugs[i])],
              LAMBDA found : found.kind # "undefined")

\* ConceptPage and its loader (concepts/$slug.tsx, lines 8-14 and 18-95)
ConceptPage(slug) ==
    LET concept == ObjectGet(generated.concepts, slug)
        currentIndex == FindIndex(generated.conceptsList, SlugOf(concept)) IN
    CASE concept.kind = "undefined" -> NotFoundView
      [] concept.kind = "inherited" ->
            \* concept.relatedRules is undefined: `?.` yields undefined
            [status |-> "ok", prerequisites |-> <<>>, relatedRules |-> <<>>,
             currentIndex |-> currentIndex,
             prev |-> PrevOf(generated.conceptsList, currentIndex),
             next |-> NextOf(generated.conceptsList, currentIndex)]
      [] OTHER ->
            LET related == RelatedRules(generated.concepts[slug].relatedRules) IN
            [status |-> "ok",
             prerequisites |-> <<>>,
             relatedRules |-> [i \in 1..Len(related) |-> RelatedRuleItem(related[i])],
             currentIndex |-> currentIndex,
             prev |-> PrevOf(generated.conceptsList, currentIndex),
             next |-> NextOf(generated.conceptsList, currentIndex)]

\* sections.flatMap((s) => s.rules)   (rules/$slug.tsx, line 31)
FlatRules(secs) ==
    LET RECURSIVE Flat(_)
        Flat(i) == IF i > Len(secs) THEN <<>> ELSE secs[i].rules \o Flat(i + 1)
    IN  Flat(1)

allRules == FlatRules(generated.sections)

\* RulePage and its loader (rules/$slug.tsx, lines 8-14 and 27-34)
RulePage(slug) ==
    LET rule == ObjectGet(generated.rules, slug)
        currentIndex == FindIndex(allRules, SlugOf(rule)) IN
    IF rule.kind = "undefined" THEN NotFoundView
    ELSE [status |-> "ok", prerequisites |-> <<>>, relatedRules |-> <<>>,
          currentIndex |-> currentIndex,
          prev |-> PrevOf(allRules, currentIndex),
          next |-> NextOf(allRules, currentIndex)]

\* the slugs asked for: two files, a slug of no file, an inherited key
RouteSlugs == { <<"x">>, <<"y">>, <<"q">>, CONSTRUCTOR }

\* the site is built from the module the finished run wrote
SiteBuilt == pc = "exited" /\ outputFile.writes > 0

\* /guides/$slug is requested
ServeGuidePage ==
    /\ SiteBuilt
    /\ \E slug \in RouteSlugs :
          /\ route' = [page |-> "guide", slug |-> slug]
          /\ view' = GuidePage(slug)
    /\ UNCHANGED <<pipeVars, renderVars, runVars, appVars>>

\* /concepts/$slug is requested
ServeConceptPage ==
    /\ SiteBuilt
    /\ \E slug \in RouteSlugs :
          /\ route' = [page |-> "concept", slug |-> slug]
          /\ view' = ConceptPage(slug)
    /\ UNCHANGED <<pipeVars, renderVars, runVars, appVars>>

\* the rule slugs asked for: the two rule files, a slug of no file, an
\* inherited key
RuleRouteSlugs == { <<"a","-","x">>, <<"b","-","x">>, <<"q">>, CONSTRUCTOR }

\* /rules/$slug is requested
ServeRulePage ==
    /\ SiteBuilt
    /\ \E slug \in RuleRouteSlugs :
          /\ route' = [page |-> "rule", slug |-> slug]
          /\ view' = RulePage(slug)
    /\ UNCHANGED <<pipeVars, renderVars, runVars, appVars>>

NextSite == Next \/ ServeGuidePage \/ ServeConceptPage \/ ServeRulePage

\* what prerequisites and relatedRules may name: a guide, a rule, nothing,
\* and a name every object inherits
RefSlugs == { <<"x">>, <<"a","-","x">>, <<"q">>, CONSTRUCTOR }

\* x.md with the references, alone or with y.md
SiteContentDirs ==
    { [exists |-> TRUE,
       files |-> << File(<<"x",".","m","d">>, TRUE, "yaml",
                         [NoData EXCEPT !.prerequisites = <<refs>>, !.relatedRules = <<refs>>],
                         <<>>) >> \o more] :
        refs \in SeqsUpTo(RefSlugs, MaxRefs),
        more \in { <<>>,
                   << File(<<"y",".","m","d">>, TRUE, "yaml",
                           [NoData EXCEPT !.title = <<<<"Y">>>>, !.order = <<1>>], <<>>) >> } }

InitSite ==
    /\ sectionsFile \in {MissingFile,
                         [exists |-> TRUE, lines |-> <<HeaderLine(1, "Alpha", SEC_A),
                                                       HeaderLine(2, "Beta", SEC_B)>>],
                         [exists |-> TRUE, lines |-> <<HeaderLine(1, "Alpha", SEC_A),
                                                       HeaderLine(2, "Again", SEC_A)>>]}
    /\ rulesDir \in IF sectionsFile.exists
                     THEN {[exists |-> TRUE, files |-> <<>>], SectionRulesDir}
                     ELSE {MissingDir}
    /\ guidesDir \in SiteContentDirs
    /\ conceptsDir = guidesDir
    /\ outputFile = [exists |-> FALSE, writes |-> 0, content |-> NoOutput]
    /\ hlFaulty = FALSE
    /\ RunStart

SpecSite == InitSite /\ [][NextSite]_vars

----------------------------------------------------------------------------
\* The API side: the users collection, AuthService.login and the seed
\* script.  UsersService and seed/data/users.seed are not part of the
\* sources at hand; findByEmail and create are modelled by what their
\* callers rely on.

\* the content pipeline, the renderer and the site are not running
PipelineOff ==
    /\ sectionsFile = MissingFile
    /\ rulesDir = MissingDir
    /\ guidesDir = MissingDir
    /\ conceptsDir = MissingDir
    /\ outputFile = [exists |-> FALSE, writes |-> 0, content |-> NoOutput]
    /\ pc = "off"
    /\ sections = <<>>
    /\ rules = <<>>
    /\ guides = <<>>
    /\ concepts = <<>>
    /\ highlighter = "null"
    /\ hlCreated = 0
    /\ hlFaulty = FALSE
    /\ warnings = <<>>
    /\ errorLog = <<>>
    /\ rejection = ""
    /\ exitCode = -1
    /\ phaseLog = <<>>
    /\ run = 1
    /\ previousOutput = NoPreviousRun
    /\ tok = NoToken
    /\ html = NoHtml
    /\ route = NoRoute
    /\ view = NoView

\* a user document; origin tells the documents that were there before the
\* seed script ran ("before") from those it created ("seed")
User(id, email, password, origin) ==
    [id |-> id, email |-> email, password |-> password, origin |-> origin]

\* usersService.findByEmail(email): the first document with that email,
\* <<>> for null
findByEmail(us, email) ==
    LET at == {i \in 1..Len(us) : us[i].email = email}
    IN  IF at = {} THEN <<>> ELSE <<us[CHOOSE i \in at : \A j \in at : i <= j]>>

\* usersService.create(user): a new document with a fresh id
create(us, entry) ==
    Append(us, User(Len(us) + 1, entry.email, entry.password, "seed"))

\* jwtService.sign(payload)
Sign(payload) == [signed |-> payload]

Unauthorized == [kind |-> "unauthorized", token |-> <<>>]

\* login that signs what was submitted
loginUnverified(us, dto) ==
    [kind |-> "token",
     token |-> <<Sign([email |-> dto.email, password |-> dto.password])>>]

\* login that looks the user up but does not compare the password
loginAnyPassword(us, dto) ==
    LET foundUser == findByEmail(us, dto.email) IN
    IF foundUser = <<>>
    THEN Unauthorized
    ELSE [kind |-> "token",
          token |-> <<Sign([email |-> dto.email, id |-> foundUser[1].id])>>]

\* AuthService.login (modules/auth/auth.service.ts, lines 13-27)
login(us, dto) ==
    LET foundUser == findByEmail(us, dto.email) IN
    IF foundUser = <<>> \/ foundUser[1].password # dto.password
    THEN Unauthorized
    ELSE [kind |-> "token",
          token |-> <<Sign([email |-> dto.email, id |-> foundUser[1].id])>>]

Emails == {"e1", "e2"}
Passwords == {"p1", "p2"}

\* the collections the API may find: any documents, also several of one email
UserTables ==
    { [i \in 1..Len(t) |-> User(i, t[i][1], t[i][2], "before")] :
        t \in SeqsUpTo(Emails \X Passwords, MaxUsers) }

\* POST /auth/login (auth.controller.ts, lines 16-19)
Login ==
    /\ seedPc = "off"
    /\ \E email \in Emails \cup {"e3"}, password \in Passwords :
          /\ loginDto' = <<[email |-> email, password |-> password]>>
          /\ loginResult' = login(users, [email |-> email, password |-> password])
    /\ UNCHANGED <<users, usersSeed, seedPc, seedIndex, seedSteps, seedError, seedLog,
                   seedExit, appOpen, seedRun>>
    /\ UNCHANGED <<pipeVars, renderVars, runVars, siteVars, themeVars>>

NextAuth == Login

InitAuth ==
    /\ PipelineOff
    /\ ThemeOff
    /\ users \in UserTables
    /\ usersSeed = <<>>
    /\ loginDto = <<>>
    /\ loginResult = NoLogin
    /\ seedPc = "off"
    /\ seedIndex = 0
    /\ seedSteps = <<>>
    /\ seedError = ""
    /\ seedLog = <<>>
    /\ seedExit = -1
    /\ appOpen = FALSE
    /\ seedRun = 0

SpecAuth == InitAuth /\ [][NextAuth]_vars

----------------------------------------------------------------------------
\* The seed script (core/scripts/seed.ts) and SeedService

\* the body of the loop with the user created whether or not one exists
seedOneAlways(us, entry) == create(us, entry)

\* the body of the loop of seedUsers (seed.service.ts, lines 17-20)
seedOne(us, entry) ==
    IF findByEmail(us, entry.email) = <<>> THEN create(us, entry) ELSE us

\* const app = await NestFactory.createApplicationContext(SeedModule);
\* const seedService = app.get(SeedService);   (seed.ts, lines 7-8)
CreateContext ==
    /\ seedPc = "start"
    /\ \E ok \in BOOLEAN :
          IF ok
          THEN /\ appOpen' = TRUE
               /\ seedSteps' = Append(seedSteps, "context")
               /\ seedIndex' = 1
               /\ seedPc' = "seeding"
               /\ UNCHANGED seedError
          ELSE /\ seedError' = "context"
               /\ seedPc' = "caught"
               /\ UNCHANGED <<appOpen, seedSteps, seedIndex>>
    /\ UNCHANGED <<users, usersSeed, loginDto, loginResult, seedLog, seedExit, seedRun>>
    /\ UNCHANGED <<pipeVars, renderVars, runVars, siteVars, themeVars>>

\* one pass of `for (const user of usersSeed)` (seed.service.ts, lines
\* 16-21); the two awaited calls reject when the database fails
SeedUser ==
    /\ seedPc = "seeding"
    /\ seedIndex <= Len(usersSeed)
    /\ \E ok \in BOOLEAN :
          IF ok
          THEN /\ users' = seedOne(users, usersSeed[seedIndex])
               /\ seedIndex' = seedIndex + 1
               /\ UNCHANGED <<seedError, seedPc>>
          ELSE /\ seedError' = "seed"
               /\ seedPc' = "caught"
               /\ UNCHANGED <<users, seedIndex>>
    /\ UNCHANGED <<usersSeed, loginDto, loginResult, seedSteps, seedLog, seedExit,
                   appOpen, seedRun>>
    /\ UNCHANGED <<pipeVars, renderVars, runVars, siteVars, themeVars>>

\* the loop has ended: seedUsers logs and seed() resolves (seed.service.ts,
\* lines 22 and 12; seed.ts, line 9)
SeedResolved ==
    /\ seedPc = "seeding"
    /\ seedIndex > Len(usersSeed)
    /\ seedSteps' = Append(seedSteps, "seed")
    /\ seedPc' = "closing"
    /\ UNCHANGED <<users, usersSeed, loginDto, loginResult, seedIndex, seedError,
                   seedLog, seedExit, appOpen, seedRun>>
    /\ UNCHANGED <<pipeVars, renderVars, runVars, siteVars, themeVars>>

\* await app.close(); process.exit(0);   (seed.ts, lines 10-11)
CloseAndExit ==
    /\ seedPc = "closing"
    /\ \E ok \in BOOLEAN :
          IF ok
          THEN /\ appOpen' = FALSE
               /\ seedSteps' = Append(seedSteps, "close")
               /\ seedExit' = 0
               /\ seedPc' = "exited"
               /\ UNCHANGED seedError
          ELSE /\ seedError' = "close"
               /\ seedPc' = "caught"
               /\ UNCHANGED <<appOpen, seedSteps, seedExit>>
    /\ UNCHANGED <<users, usersSeed, loginDto, loginResult, seedIndex, seedLog, seedRun>>
    /\ UNCHANGED <<pipeVars, renderVars, runVars, siteVars, themeVars>>

\* a catch block that logs and lets the process end normally
CatchSeedErrorLogOnly ==
    /\ seedPc = "caught"
    /\ seedLog' = Append(seedLog, seedError)
    /\ seedExit' = 0
    /\ seedPc' = "exited"
    /\ UNCHANGED <<users, usersSeed, loginDto, loginResult, seedIndex, seedSteps,
                   seedError, appOpen, seedRun>>
    /\ UNCHANGED <<pipeVars, renderVars, runVars, siteVars, themeVars>>

\* catch (error) { console.error(...); process.exit(1); }   (seed.ts, lines 12-15)
CatchSeedError ==
    /\ seedPc = "caught"
    /\ seedLog' = Append(seedLog, seedError)
    /\ seedExit' = 1
    /\ seedPc' = "exited"
    /\ UNCHANGED <<users, usersSeed, loginDto, loginResult, seedIndex, seedSteps,
                   seedError, appOpen, seedRun>>
    /\ UNCHANGED <<pipeVars, renderVars, runVars, siteVars, themeVars>>

\* `bun run seed` once more: a new process against the same database
SeedAgain ==
    /\ seedPc = "exited"
    /\ seedRun < MaxSeedRuns
    /\ seedRun' = seedRun + 1
    /\ seedPc' = "start"
    /\ seedIndex' = 0
    /\ seedSteps' = <<>>
    /\ seedError' = ""
    /\ seedLog' = <<>>
    /\ seedExit' = -1
    /\ appOpen' = FALSE
    /\ UNCHANGED <<users, usersSeed, loginDto, loginResult>>
    /\ UNCHANGED <<pipeVars, renderVars, runVars, siteVars, themeVars>>

NextSeed ==
    \/ CreateContext
    \/ SeedUser
    \/ SeedResolved
    \/ CloseAndExit
    \/ CatchSeedError
    \/ SeedAgain

\* the seed data: any list of entries, also with one email twice
SeedLists ==
    SeqsUpTo({[email |-> e, password |-> p] : e \in Emails, p \in {"p1"}}
                 \cup {[email |-> "e1", password |-> "p2"]}, MaxSeed)

InitSeed ==
    /\ PipelineOff
    /\ ThemeOff
    /\ users \in UserTables
    /\ usersSeed \in SeedLists
    /\ loginDto = <<>>
    /\ loginResult = NoLogin
    /\ seedPc = "start"
    /\ seedIndex = 0
    /\ seedSteps = <<>>
    /\ seedError = ""
    /\ seedLog = <<>>
    /\ seedExit = -1
    /\ appOpen = FALSE
    /\ seedRun = 1

SpecSeed == InitSeed /\ [][NextSeed]_vars

----------------------------------------------------------------------------
\* The theme of the site: ThemeProvider (src/lib/theme.tsx) and ThemeToggle

MaxClicks == 6

\* getSystemTheme() in the browser (theme.tsx, lines 13-16)
getSystemTheme(dark) == IF dark THEN "dark" ELSE "light"

\* getStoredTheme() in the browser (theme.tsx, lines 18-21): the item as it
\* is stored, "system" for null and for the empty string
getStoredTheme(stored) ==
    IF stored = <<>> \/ stored[1] = "" THEN "system" ELSE stored[1]

\* theme === "system" ? getSystemTheme() : theme   (lines 27, 31)
Resolved(t, dark) == IF t = "system" THEN getSystemTheme(dark) ELSE t

\* the effects of lines 30-47 for the committed `theme`; they run before the
\* next event is handled
ThemeEffects(t) ==
    /\ resolvedTheme' = Resolved(t, osDark)
    /\ rootDark' = (Resolved(t, osDark) = "dark")
    /\ listenerTheme' = <<t>>

\* the first render of a ThemeProvider (lines 24-28): the state initialisers
MountProvider ==
    /\ themePc' = "mounted"
    /\ theme' = getStoredTheme(storedTheme)
    /\ resolvedTheme' = Resolved(getStoredTheme(storedTheme), osDark)
    /\ rootDark' = FALSE
    /\ listenerTheme' = <<>>
    /\ effectsPending' = TRUE
    /\ trail' = <<getStoredTheme(storedTheme)>>
    /\ UNCHANGED <<storedTheme, osDark, pipeVars, renderVars, runVars, siteVars, backVars>>

\* the page is opened
Mount ==
    /\ themePc = "unmounted"
    /\ MountProvider

\* the page is reloaded: a new document and a new ThemeProvider
Reload ==
    /\ themePc = "mounted"
    /\ ~effectsPending
    /\ MountProvider

\* the effects of the first commit run (lines 30-47)
RunEffects ==
    /\ themePc = "mounted"
    /\ effectsPending
    /\ ThemeEffects(theme)
    /\ effectsPending' = FALSE
    /\ UNCHANGED <<themePc, theme, storedTheme, osDark, trail,
                   pipeVars, renderVars, runVars, siteVars, backVars>>

\* setTheme that keeps the choice in the component state only
setThemeNotStored(newTheme) ==
    /\ theme' = newTheme
    /\ UNCHANGED storedTheme

\* setTheme (lines 49-52)
setTheme(newTheme) ==
    /\ theme' = newTheme
    /\ storedTheme' = <<newTheme>>

\* cycleTheme of ThemeToggle (generate-content.ts, lines 483-487)
cycleTheme ==
    IF theme = "light" THEN setTheme("dark")
    ELSE IF theme = "dark" THEN setTheme("system")
    ELSE setTheme("light")

\* themeLabel of ThemeToggle (lines 489-493): the entry of the object
\* literal for `theme`; <<>> where the lookup yields no string (undefined, or
\* what the key inherits from Object.prototype) and no label is rendered
themeLabel(t) ==
    CASE t = "light" -> <<"Switch to dark mode">>
      [] t = "dark" -> <<"Switch to system theme">>
      [] t = "system" -> <<"Switch to light mode">>
      [] OTHER -> <<>>

\* the button is activated (onClick, line 499): cycleTheme, the render with
\* the new `theme` and the effects of that commit
Click ==
    /\ themePc = "mounted"
    /\ ~effectsPending
    /\ Len(trail) <= MaxClicks
    /\ cycleTheme
    /\ ThemeEffects(theme')
    /\ trail' = Append(trail, theme')
    /\ UNCHANGED <<themePc, osDark, effectsPending,
                   pipeVars, renderVars, runVars, siteVars, backVars>>

\* the OS colour scheme changes; handleChange (lines 38-44) runs if it is
\* subscribed, with the `theme` of the render that subscribed it
OsChange ==
    /\ themePc = "mounted"
    /\ osDark' = ~osDark
    /\ IF listenerTheme = <<"system">>
       THEN /\ resolvedTheme' = getSystemTheme(osDark')
            /\ rootDark' = (getSystemTheme(osDark') = "dark")
       ELSE UNCHANGED <<resolvedTheme, rootDark>>
    /\ UNCHANGED <<themePc, theme, storedTheme, effectsPending, listenerTheme, trail,
                   pipeVars, renderVars, runVars, siteVars, backVars>>

NextTheme == Mount \/ RunEffects \/ Click \/ OsChange \/ Reload

\* what localStorage may hold under "theme" when the page is opened: nothing,
\* the empty string, one of the three values, something else, a name every
\* object inherits
StoredThemes ==
    { <<>>, <<"">>, <<"light">>, <<"dark">>, <<"system">>, <<"blue">>, <<"constructor">> }

InitTheme ==
    /\ PipelineOff
    /\ BackendOff
    /\ themePc = "unmounted"
    /\ theme = "system"
    /\ resolvedTheme = "light"
    /\ storedTheme \in StoredThemes
    /\ osDark \in BOOLEAN
    /\ rootDark = FALSE
    /\ effectsPending = FALSE
    /\ listenerTheme = <<>>
    /\ trail = <<>>

SpecTheme == InitTheme /\ [][NextTheme]_vars

----------------------------------------------------------------------------
\* Vocabulary of the properties, stated on the inputs and not through the
\* operators above

\* main() got past parseRules: `rules` holds what parseRules returned
RulesReturned == pc \in {"rules", "guides", "concepts", "resolved"}

\* main() got past parseGuides / parseConcepts
GuidesReturned == pc \in {"guides", "concepts", "resolved"}
ConceptsReturned == pc \in {"concepts", "resolved"}

\* generateOutput has written the output file in this run
OutputWritten == outputFile.writes > 0

\* the name ends in ".md"
HasMdExtension(name) ==
    /\ Len(name) >= 3
    /\ name[Len(name) - 2] = "."
    /\ name[Len(name) - 1] = "m"
    /\ name[Len(name)] = "d"

\* the name without its last three characters
Stem(name) == [i \in 1..(Len(name) - 3) |-> name[i]]

\* the text before the first '-' of the name: the longest prefix without '-'
BeforeFirstDash(name) ==
    LET n == CHOOSE k \in 0..Len(name) :
                 /\ \A i \in 1..k : name[i] # "-"
                 /\ (k = Len(name) \/ name[k + 1] = "-")
    IN  [i \in 1..n |-> name[i]]

\* positions of the candidate rule files in the listing
RuleCandidates ==
    {i \in 1..Len(rulesDir.files) :
        HasMdExtension(rulesDir.files[i].name) /\ rulesDir.files[i].name[1] # "_"}

\* the ids of the Sections parseSections returned
SectionIds == {sections[k].id : k \in 1..Len(sections)}

MatchedCandidates ==
    {i \in RuleCandidates : BeforeFirstDash(rulesDir.files[i].name) \in SectionIds}

\* C1: whenever parseRules returns, it has emitted a RuleItem for a candidate
\* rule file exactly when the text before the first '-' of its name is the id
\* of a parsed Section, that RuleItem's section is this prefix, nothing else
\* is emitted, and so the number of RuleItems is the number of candidates
\* minus the number of unmatched candidates.
C1_RuleEmittedIffPrefixMatches ==
    RulesReturned =>
        /\ \A i \in RuleCandidates :
              LET name == rulesDir.files[i].name
                  emitted == {k \in 1..Len(rules) : rules[k].filename = name}
              IN  /\ (i \in MatchedCandidates) <=> (emitted # {})
                  /\ Cardinality(emitted) <= 1
                  /\ \A k \in emitted : rules[k].section = BeforeFirstDash(name)
        /\ \A k \in 1..Len(rules) :
              \E i \in RuleCandidates : rules[k].filename = rulesDir.files[i].name
        /\ Len(rules) = Cardinality(RuleCandidates)
                          - Cardinality(RuleCandidates \ MatchedCandidates)

\* parseRules returned with a RuleItem emitted, a candidate dropped for its
\* prefix, and a file of the listing that is no candidate
C1_Witness ==
    /\ pc = "rules"
    /\ Len(rules) >= 1
    /\ RuleCandidates \ MatchedCandidates # {}
    /\ \E i \in 1..Len(rulesDir.files) : i \notin RuleCandidates

\* C2: when _sections.md or the rules directory does not exist, the run
\* aborts and the process ends with a non-zero exit status.
C2_MissingInputExitsNonZero ==
    (pc = "exited" /\ (~sectionsFile.exists \/ ~rulesDir.exists)) =>
        (~OutputWritten /\ exitCode # 0)

\* every mandatory input of the run is there
MandatoryInputsPresent == sectionsFile.exists /\ rulesDir.exists

\* the file can be read, its front-matter parses and its fields have the
\* types the parser expects: processing it raises nothing
ProcessesCleanly(f) ==
    /\ f.readable
    /\ f.fm.kind # "malformed"
    /\ (f.fm.data.tags # <<>> => f.fm.data.tags[1].type = "string")

ContentCandidates(dir) ==
    {i \in 1..Len(dir.files) : HasMdExtension(dir.files[i].name)}

\* C3: an error raised while processing one content file stays in that file:
\* the run reaches generateOutput and the output holds the record of every
\* other file, that is of every file that processes without error.
C3_FileErrorsDoNotPropagate ==
    (pc = "exited" /\ MandatoryInputsPresent) =>
        /\ OutputWritten
        /\ \A i \in MatchedCandidates :
              ProcessesCleanly(rulesDir.files[i]) =>
                  Stem(rulesDir.files[i].name) \in DOMAIN outputFile.content.rules
        /\ \A i \in ContentCandidates(guidesDir) :
              ProcessesCleanly(guidesDir.files[i]) =>
                  Stem(guidesDir.files[i].name) \in DOMAIN outputFile.content.guides
        /\ \A i \in ContentCandidates(conceptsDir) :
              ProcessesCleanly(conceptsDir.files[i]) =>
                  Stem(conceptsDir.files[i].name) \in DOMAIN outputFile.content.concepts

\* no file of the run raises anything but, possibly, a front-matter error
OnlyFrontMatterFaults ==
    /\ MandatoryInputsPresent
    /\ \A d \in {rulesDir, guidesDir, conceptsDir} :
          \A i \in 1..Len(d.files) :
              /\ d.files[i].readable
              /\ (d.files[i].fm.data.tags # <<>> => d.files[i].fm.data.tags[1].type = "string")

\* the record has the documented default in every metadata field
GuideDefaults(g) ==
    /\ g.title = g.slug
    /\ g.description = ""
    /\ g.order = 999
    /\ g.category = "general"
    /\ g.difficulty = "beginner"
    /\ g.estimatedTime = ""
    /\ g.prerequisites = <<>>

ConceptDefaults(c) ==
    /\ c.title = c.slug
    /\ c.description = ""
    /\ c.order = 999
    /\ c.category = "general"
    /\ c.relatedRules = <<>>

RuleDefaults(r) ==
    /\ r.title = r.slug
    /\ r.impactDescription = ""
    /\ r.tags = <<>>

\* C4: a content file whose front-matter block is malformed or absent counts
\* as having empty metadata: no error is raised, and the file's record is
\* produced with every metadata field at its default.
C4_BadFrontMatterIsEmptyMetadata ==
    (pc = "exited" /\ OnlyFrontMatterFaults) =>
        /\ rejection = ""
        /\ \A i \in ContentCandidates(guidesDir) :
              guidesDir.files[i].fm.kind # "yaml" =>
                  LET slug == Stem(guidesDir.files[i].name)
                  IN  /\ slug \in DOMAIN outputFile.content.guides
                      /\ GuideDefaults(outputFile.content.guides[slug])
        /\ \A i \in ContentCandidates(conceptsDir) :
              conceptsDir.files[i].fm.kind # "yaml" =>
                  LET slug == Stem(conceptsDir.files[i].name)
                  IN  /\ slug \in DOMAIN outputFile.content.concepts
                      /\ ConceptDefaults(outputFile.content.concepts[slug])
        /\ \A i \in MatchedCandidates :
              rulesDir.files[i].fm.kind # "yaml" =>
                  LET slug == Stem(rulesDir.files[i].name)
                  IN  /\ slug \in DOMAIN outputFile.content.rules
                      /\ RuleDefaults(outputFile.content.rules[slug])

\* the directory position of the file an item was made from
PositionOf(dir, item) ==
    CHOOSE i \in 1..Len(dir.files) : dir.files[i].name = item.filename

\* the list is in ascending order, and items of equal order are in the order
\* the directory listing gave their files
SortedStably(dir, items) ==
    \A i, j \in 1..Len(items) :
        i < j =>
            /\ items[i].order <= items[j].order
            /\ items[i].order = items[j].order =>
                   PositionOf(dir, items[i]) < PositionOf(dir, items[j])

\* the list holds one item for each candidate file of the directory
OnePerCandidate(dir, items) ==
    /\ Len(items) = Cardinality(ContentCandidates(dir))
    /\ \A c \in ContentCandidates(dir) :
          \E i \in 1..Len(items) : items[i].filename = dir.files[c].name

\* C5: the guide list and the concept list that parseGuides and
\* parseConcepts return, and guidesList and conceptsList of the output, are
\* sorted by order ascending, items of equal order keeping their relative
\* file enumeration order.
C5_ContentSortedStably ==
    /\ GuidesReturned =>
          OnePerCandidate(guidesDir, guides) /\ SortedStably(guidesDir, guides)
    /\ ConceptsReturned =>
          OnePerCandidate(conceptsDir, concepts) /\ SortedStably(conceptsDir, concepts)
    /\ OutputWritten =>
          /\ Len(outputFile.content.guidesList) = Len(guides)
          /\ \A i \in 1..Len(guides) :
                /\ outputFile.content.guidesList[i].slug = guides[i].slug
                /\ outputFile.content.guidesList[i].order = guides[i].order
          /\ Len(outputFile.content.conceptsList) = Len(concepts)
          /\ \A i \in 1..Len(concepts) :
                /\ outputFile.content.conceptsList[i].slug = concepts[i].slug
                /\ outputFile.content.conceptsList[i].order = concepts[i].order

\* files of order 10, 5, 5 were listed in this order and came out as
\* second, third, first
C5_Witness ==
    /\ OutputWritten
    /\ Len(guidesDir.files) = 3
    /\ \A i \in 1..3 : guidesDir.files[i].fm.kind = "yaml"
    /\ guidesDir.files[1].fm.data.order = <<10>>
    /\ guidesDir.files[2].fm.data.order = <<5>>
    /\ guidesDir.files[3].fm.data.order = <<5>>
    /\ [i \in 1..3 |-> guides[i].filename]
         = <<guidesDir.files[2].name, guidesDir.files[3].name, guidesDir.files[1].name>>
    /\ [i \in 1..3 |-> outputFile.content.conceptsList[i].order] = <<5, 5, 10>>

\* C6: the emitted order of a guide or concept is the order value of its
\* front-matter whenever the field is present, 0 included, and is 999
\* exactly when the field is absent.
C6_OrderIsFrontMatterOrder ==
    /\ GuidesReturned =>
          \A i \in 1..Len(guides) :
              LET given == guidesDir.files[PositionOf(guidesDir, guides[i])].fm.data.order
              IN  /\ given # <<>> => guides[i].order = given[1]
                  /\ given = <<>> <=> guides[i].order = 999
    /\ ConceptsReturned =>
          \A i \in 1..Len(concepts) :
              LET given == conceptsDir.files[PositionOf(conceptsDir, concepts[i])].fm.data.order
              IN  /\ given # <<>> => concepts[i].order = given[1]
                  /\ given = <<>> <=> concepts[i].order = 999

\* the emitted sections collection
EmittedSections == outputFile.content.sections

\* the {slug, title} pairs of the RuleItems of one section
PairsOfSection(id) ==
    {[slug |-> rules[k].slug, title |-> rules[k].title] :
        k \in {n \in 1..Len(rules) : rules[n].section = id}}

\* C7: in the emitted sections collection the Sections are in ascending
\* order of their order field, and the rules list of every Section is sorted
\* by title ascending under localeCompare and holds exactly the {slug, title}
\* of the RuleItems whose section is that Section's id.
C7_SectionsAndRulesSorted ==
    OutputWritten =>
        /\ \A i, j \in 1..Len(EmittedSections) :
              i < j => EmittedSections[i].order <= EmittedSections[j].order
        /\ \A i \in 1..Len(EmittedSections) :
              LET rl == EmittedSections[i].rules IN
              /\ \A a, b \in 1..Len(rl) :
                    a < b => LocaleCompare(rl[a].title, rl[b].title) <= 0
              /\ {rl[a] : a \in 1..Len(rl)} = PairsOfSection(EmittedSections[i].id)
              /\ Len(rl) = Cardinality({n \in 1..Len(rules) :
                                           rules[n].section = EmittedSections[i].id})

\* Sections listed out of order in the index, and a Section whose rules were
\* parsed in another order than the one emitted
C7_Witness ==
    /\ OutputWritten
    /\ Len(sectionsFile.lines) >= 2
    /\ sectionsFile.lines[1].kind = "header"
    /\ sectionsFile.lines[1].order = 2
    /\ EmittedSections[1].order = 1
    /\ \E i \in 1..Len(EmittedSections) :
          /\ Len(EmittedSections[i].rules) >= 2
          /\ [k \in 1..Len(EmittedSections[i].rules) |-> EmittedSections[i].rules[k].slug]
               # LET g == SelectSeq(rules, LAMBDA r : r.section = EmittedSections[i].id)
                 IN  [k \in 1..Len(g) |-> g[k].slug]

\* a Section of the output without its rules list
WithoutRules(sec) ==
    [order |-> sec.order, id |-> sec.id, title |-> sec.title,
     impact |-> sec.impact, description |-> sec.description]

\* what parseSections returns for the section index of the run
ParsedSections == parseSections(sectionsFile).value

\* C8: every Section parseSections returned is in the emitted sections
\* collection exactly once, whether or not a rule matches it, and a Section
\* no rule matches is emitted with an empty rules list.
C8_EverySectionEmittedOnce ==
    OutputWritten =>
        /\ Len(EmittedSections) = Len(ParsedSections)
        /\ \A k \in 1..Len(ParsedSections) :
              Cardinality({i \in 1..Len(EmittedSections) :
                              WithoutRules(EmittedSections[i]) = ParsedSections[k]})
                = Cardinality({j \in 1..Len(ParsedSections) :
                                  ParsedSections[j] = ParsedSections[k]})
        /\ \A i \in 1..Len(EmittedSections) :
              (\A n \in 1..Len(rules) : rules[n].section # EmittedSections[i].id)
                  => EmittedSections[i].rules = <<>>

\* an output with a Section that has rules and a Section that has none
C8_Witness ==
    /\ OutputWritten
    /\ \E i, j \in 1..Len(EmittedSections) :
          /\ EmittedSections[i].rules = <<>>
          /\ EmittedSections[j].rules # <<>>

\* the character at position i of the target is c
CharAt(h, i, c) == Len(h) >= i /\ h[i] = c

\* the three kinds of link target
SingleSlashTarget(h) == CharAt(h, 1, "/") /\ ~CharAt(h, 2, "/")

HttpTarget(h) ==
    /\ CharAt(h, 1, "h") /\ CharAt(h, 2, "t") /\ CharAt(h, 3, "t") /\ CharAt(h, 4, "p")
    /\ \/ CharAt(h, 5, ":") /\ CharAt(h, 6, "/") /\ CharAt(h, 7, "/")
       \/ CharAt(h, 5, "s") /\ CharAt(h, 6, ":") /\ CharAt(h, 7, "/") /\ CharAt(h, 8, "/")

NewTab(a) == a.target = "_blank" /\ a.rel = "noopener noreferrer"

NoNewTab(a) == a.target = "" /\ a.rel = ""

\* the rendered href is the base path followed by the target
Prefixed(a, h) ==
    /\ Len(a.href) = Len(h) + 20
    /\ [i \in 1..20 |-> a.href[i]]
         = <<"/","a","g","e","n","t","-","n","e","s","t","j","s","-","s","k","i","l","l","s">>
    /\ [i \in 1..Len(h) |-> a.href[20 + i]] = h

\* C9: a link target starting with a single '/' gets the base path
\* '/agent-nestjs-skills' prepended and no new-tab attributes; a target
\* starting with 'http://' or 'https://' keeps its href and gets
\* target="_blank" rel="noopener noreferrer"; a target starting with '//'
\* and every other target keeps its href and gets no new-tab attributes.  No
\* link is both prefixed and marked new-tab.
C9_LinkCases ==
    html.kind = "a" =>
        /\ SingleSlashTarget(tok.href) => Prefixed(html, tok.href) /\ NoNewTab(html)
        /\ HttpTarget(tok.href) => html.href = tok.href /\ NewTab(html)
        /\ (~SingleSlashTarget(tok.href) /\ ~HttpTarget(tok.href)) =>
               html.href = tok.href /\ NoNewTab(html)
        /\ ~(html.href # tok.href /\ NewTab(html))
        /\ html.title = tok.title

\* a protocol-relative target rendered
C9_Witness ==
    /\ html.kind = "a"
    /\ tok.href = <<"/", "/", "r">>
    /\ html.href = <<"/", "/", "r">>
    /\ NoNewTab(html)

\* the alias table of the claim
AliasTarget(l) ==
    CASE l = <<"t","s">> -> <<"t","y","p","e","s","c","r","i","p","t">>
      [] l = <<"j","s">> -> <<"j","a","v","a","s","c","r","i","p","t">>
      [] l = <<"s","h">> -> <<"b","a","s","h">>
      [] l = <<"s","h","e","l","l">> -> <<"b","a","s","h">>
      [] l = <<"y","m","l">> -> <<"y","a","m","l">>
      [] OTHER -> l

\* the declared language of the token, 'plaintext' when it declares none
Declared(t) == IF t.lang = <<>> THEN <<"p","l","a","i","n","t","e","x","t">> ELSE t.lang

\* C10: the language handed to the highlighter is a loaded one: the
\* alias-mapped name of the declared language if that name is loaded,
\* otherwise 'plaintext', a missing language counting as 'plaintext'; the
\* label of the wrapper (data-language and header text) is the declared
\* language, not the mapped or fallback one.
C10_HighlightLanguageAndLabel ==
    html.kind = "code-block" =>
        /\ html.highlightedAs \in LoadedLanguages
        /\ html.highlightedAs =
              IF AliasTarget(Declared(tok)) \in LoadedLanguages
              THEN AliasTarget(Declared(tok))
              ELSE <<"p","l","a","i","n","t","e","x","t">>
        /\ html.dataLanguage = Declared(tok)
        /\ html.headerLang = Declared(tok)

\* a block declaring 'cobol' rendered unhighlighted and labelled 'cobol'
C10_Witness ==
    /\ html.kind = "code-block"
    /\ tok.lang = <<"c","o","b","o","l">>
    /\ html.highlightedAs = <<"p","l","a","i","n","t","e","x","t">>
    /\ html.dataLanguage = <<"c","o","b","o","l">>

----------------------------------------------------------------------------
\* Highlighting failures

\* the character an escaped piece stands for
Unescaped(piece) ==
    CASE piece = "&amp;" -> "&"
      [] piece = "&lt;" -> "<"
      [] piece = "&gt;" -> ">"
      [] OTHER -> piece

\* the renderer has returned for a code token
CodeRendered == tok.type = "code" /\ html # NoHtml

\* C11: when hl.codeToHtml throws, renderer.code returns a <pre><code> block
\* whose text holds no raw '&', '<' or '>' and stands, piece by piece, for the
\* characters of the code; when it does not throw the highlighted block is
\* returned; either way the renderer returns a block and raises nothing.
C11_HighlightFailureFallsBack ==
    CodeRendered =>
        /\ html.kind \in {"code-block", "pre"}
        /\ hlFaulty <=> html.kind = "pre"
        /\ hlFaulty =>
              /\ Len(html.text) = Len(tok.text)
              /\ \A i \in 1..Len(html.text) :
                    /\ html.text[i] \notin {"&", "<", ">"}
                    /\ Unescaped(html.text[i]) = tok.text[i]
              /\ html.headerLang = Declared(tok)

C11_Witness ==
    /\ CodeRendered
    /\ hlFaulty
    /\ html.kind = "pre"
    /\ \E i \in 1..Len(tok.text) : tok.text[i] = "<"

----------------------------------------------------------------------------
\* Repeated runs

\* the previous run wrote the output file
PreviousRunWrote == previousOutput.writes > 0

----------------------------------------------------------------------------
\* The section index

\* main() holds what parseSections returned, not yet sorted by generateOutput
SectionsReturned == pc = "sections"

\* the lines of the index that are headings with a parenthesised id
HeadingsWithId == SelectSeq(sectionsFile.lines, LAMBDA l : l.kind = "header")

\* C13: parseSections returns one Section per heading with an id, in the
\* order of the lines, each with the ordinal, title and id written in its
\* heading; the ordinal is not replaced by the place in the list.
C13_SectionsInOrderOfAppearance ==
    SectionsReturned =>
        /\ Len(sections) = Len(HeadingsWithId)
        /\ \A k \in 1..Len(sections) :
              /\ sections[k].order = HeadingsWithId[k].order
              /\ sections[k].id = HeadingsWithId[k].id
              /\ sections[k].title = HeadingsWithId[k].title

C13_Witness ==
    /\ SectionsReturned
    /\ Len(sections) = 2
    /\ sections[1].order = 2
    /\ sections[2].order = 1
    /\ sectionsFile.lines[1].kind = "header"
    /\ sectionsFile.lines[Len(sectionsFile.lines)].kind = "header"

\* the index without its headings that lack an id
WithoutNoIdHeadings == SelectSeq(sectionsFile.lines, LAMBDA l : l.kind # "noid")

\* the places of the headings with an id in a list of lines
HeadingPlaces(ls) == {i \in 1..Len(ls) : ls[i].kind = "header"}

\* the place of the k-th heading with an id
HeadingPlace(ls, k) ==
    CHOOSE i \in HeadingPlaces(ls) : Cardinality({j \in HeadingPlaces(ls) : j < i}) = k - 1

\* the last line of the block that the k-th heading opens
BlockEnd(ls, k) ==
    IF k < Cardinality(HeadingPlaces(ls)) THEN HeadingPlace(ls, k + 1) - 1 ELSE Len(ls)

\* the value of the last line of a kind in the block of the k-th heading
LastInBlock(ls, k, kind) ==
    LET at == {i \in HeadingPlace(ls, k)..BlockEnd(ls, k) : ls[i].kind = kind}
    IN  IF at = {} THEN "" ELSE ls[CHOOSE i \in at : \A j \in at : j <= i].value

\* the Sections a list of lines without id-less headings stands for
SectionsStoodFor(ls) ==
    [k \in 1..Cardinality(HeadingPlaces(ls)) |->
        [order |-> ls[HeadingPlace(ls, k)].order,
         title |-> ls[HeadingPlace(ls, k)].title,
         id |-> ls[HeadingPlace(ls, k)].id,
         impact |-> LastInBlock(ls, k, "impact"),
         description |-> LastInBlock(ls, k, "desc")]]

\* C14: a heading without a parenthesised id yields no Section, no warning
\* and no error, and the Sections returned are those of the index with that
\* line taken out: the impact and description lines after it still belong to
\* the Section opened before it.
C14_HeadingWithoutIdIsSkipped ==
    /\ sectionsFile.exists /\ phaseLog = <<"sections">> => SectionsReturned
    /\ SectionsReturned =>
          /\ sections = SectionsStoodFor(WithoutNoIdHeadings)
          /\ \A k \in 1..Len(sections) : sections[k].id # <<>>
          /\ warnings = <<>>
          /\ errorLog = <<>>

C14_Witness ==
    /\ SectionsReturned
    /\ Len(sectionsFile.lines) = 4
    /\ sectionsFile.lines[1].kind = "header"
    /\ sectionsFile.lines[2].kind = "impact"
    /\ sectionsFile.lines[3].kind = "noid"
    /\ sectionsFile.lines[4].kind = "desc"
    /\ Len(sections) = 1
    /\ sections[1].description # ""

----------------------------------------------------------------------------
\* Missing content directories

\* main() has just come back from its third call (parseGuides) or its fourth
\* (parseConcepts), by return or by rejection
AfterGuidesCall == phaseLog = <<"sections", "rules", "guides">>
AfterConceptsCall == phaseLog = <<"sections", "rules", "guides", "concepts">>

\* C15: with the guides (concepts) directory missing, parseGuides
\* (parseConcepts) returns the empty list and main() is not rejected by it,
\* nothing is logged for it, the module written holds an empty guides
\* (concepts) map and list, and a run whose rules were parsed and whose two
\* content directories are both missing ends with the output written.
C15_MissingContentDirIsEmpty ==
    /\ ~guidesDir.exists /\ AfterGuidesCall =>
            pc = "guides" /\ guides = <<>> /\ rejection = "" /\ errorLog = <<>>
    /\ ~conceptsDir.exists /\ AfterConceptsCall =>
            pc = "concepts" /\ concepts = <<>> /\ rejection = "" /\ errorLog = <<>>
    /\ ~guidesDir.exists /\ OutputWritten =>
            /\ DOMAIN outputFile.content.guides = {}
            /\ outputFile.content.guidesList = <<>>
    /\ ~conceptsDir.exists /\ OutputWritten =>
            /\ DOMAIN outputFile.content.concepts = {}
            /\ outputFile.content.conceptsList = <<>>
    /\ ~guidesDir.exists /\ ~conceptsDir.exists /\ Len(phaseLog) >= 3 /\ pc = "exited" =>
            OutputWritten /\ errorLog = <<>>

C15_Witness ==
    /\ ~guidesDir.exists
    /\ conceptsDir.exists
    /\ pc = "exited"
    /\ OutputWritten
    /\ DOMAIN outputFile.content.rules # {}
    /\ DOMAIN outputFile.content.concepts # {}

----------------------------------------------------------------------------
\* Order of the phases

PhaseOrder == <<"sections", "rules", "guides", "concepts", "output">>

\* C16: the calls main() has made are always an initial part of sections,
\* rules, guides, concepts, output; a phase's result exists only once that
\* phase has been entered, the highlighter only from the rules phase on, and
\* the output file is written only as the fifth step, after the four parsers
\* have returned.
C16_PhasesInOrder ==
    /\ Len(phaseLog) <= Len(PhaseOrder)
    /\ phaseLog = SubSeq(PhaseOrder, 1, Len(phaseLog))
    /\ Len(phaseLog) < 1 => sections = <<>>
    /\ Len(phaseLog) < 2 => rules = <<>> /\ highlighter = "null" /\ warnings = <<>>
    /\ Len(phaseLog) < 3 => guides = <<>>
    /\ Len(phaseLog) < 4 => concepts = <<>>
    /\ Len(phaseLog) < 5 => ~OutputWritten
    /\ OutputWritten =>
          /\ phaseLog = PhaseOrder
          /\ rejection = ""
          /\ outputFile.content.guidesList = GuidesList(guides)
          /\ outputFile.content.conceptsList = ConceptsList(concepts)

C16_Witness ==
    /\ OutputWritten
    /\ phaseLog = PhaseOrder
    /\ rules # <<>>
    /\ guides # <<>>
    /\ concepts # <<>>

----------------------------------------------------------------------------
\* The shared highlighter

\* some file has been rendered in this run
SomethingRendered == rules # <<>> \/ guides # <<>> \/ concepts # <<>>

\* C17: within a run createHighlighter is called at most once; the instance
\* exists from the start of the rules phase on, so before anything is
\* rendered; once it exists no step replaces it, resets it to null or
\* creates another.
C17_HighlighterCreatedOnce ==
    /\ [](/\ hlCreated <= 1
          /\ highlighter = "instance" <=> hlCreated = 1
          /\ Len(phaseLog) >= 2 => highlighter = "instance"
          /\ SomethingRendered => highlighter = "instance")
    /\ [][highlighter = "instance" =>
             highlighter' = "instance" /\ hlCreated' = hlCreated]_vars

C17_Witness ==
    /\ hlCreated = 1
    /\ rules # <<>>
    /\ guides # <<>>
    /\ concepts # <<>>
    /\ pc = "exited"

----------------------------------------------------------------------------
\* Cross-references

\* the front matter of the file of a directory that a slug names
FrontMatterOf(dir, slug) ==
    LET at == {i \in 1..Len(dir.files) : dir.files[i].name = slug \o <<".", "m", "d">>}
    IN  dir.files[CHOOSE i \in at : TRUE].fm.data

\* the list a front matter gives under a key, empty when it gives none
ListOf(opt) == IF opt = <<>> THEN <<>> ELSE opt[1]

\* the slug is a file of the directory
HasFile(dir, slug) ==
    \E i \in 1..Len(dir.files) : dir.files[i].name = slug \o <<".", "m", "d">>

\* the slugs of a list that are keys of the emitted rules map, in order
KeysOfRules(slugs) == SelectSeq(slugs, LAMBDA r : r \in DOMAIN generated.rules)

\* C18: the generator emits the prerequisites and relatedRules lists of the
\* front matter as they are; the guide page shows one item per prerequisite,
\* linked to the guide when the slug is a guide's and as the bare slug when
\* it is not; the concept page shows exactly the relatedRules slugs that are
\* keys of the rules map, in their order; a page of an existing guide or
\* concept is rendered whatever its references name.
C18_DanglingReferencesAreNotErrors ==
    /\ OutputWritten =>
          /\ \A slug \in DOMAIN generated.guides :
                generated.guides[slug].prerequisites
                    = ListOf(FrontMatterOf(guidesDir, slug).prerequisites)
          /\ \A slug \in DOMAIN generated.concepts :
                generated.concepts[slug].relatedRules
                    = ListOf(FrontMatterOf(conceptsDir, slug).relatedRules)
    /\ route.page = "guide" /\ HasFile(guidesDir, route.slug) =>
          LET declared == ListOf(FrontMatterOf(guidesDir, route.slug).prerequisites) IN
          /\ view.status = "ok"
          /\ Len(view.prerequisites) = Len(declared)
          /\ \A i \in 1..Len(declared) :
                IF HasFile(guidesDir, declared[i])
                THEN view.prerequisites[i].linkTo = <<declared[i]>>
                ELSE view.prerequisites[i] = [text |-> declared[i], linkTo |-> <<>>]
    /\ route.page = "concept" /\ HasFile(conceptsDir, route.slug) =>
          LET declared == ListOf(FrontMatterOf(conceptsDir, route.slug).relatedRules) IN
          /\ view.status = "ok"
          /\ Len(view.relatedRules) = Len(KeysOfRules(declared))
          /\ \A i \in 1..Len(view.relatedRules) :
                view.relatedRules[i].slug = <<KeysOfRules(declared)[i]>>

\* the same with the names every object inherits left out of the references
NoInheritedReference ==
    \A i \in 1..Len(guidesDir.files) :
        \A j \in 1..Len(ListOf(guidesDir.files[i].fm.data.relatedRules)) :
            ListOf(guidesDir.files[i].fm.data.relatedRules)[j] # CONSTRUCTOR

C18_OwnKeysOnly == NoInheritedReference => C18_DanglingReferencesAreNotErrors

C18_DanglingShown ==
    /\ route.page = "concept"
    /\ view.status = "ok"
    /\ Len(view.relatedRules) = 1
    /\ Len(generated.concepts[route.slug].relatedRules) = 2

----------------------------------------------------------------------------
\* Slugs

\* the records of a collection have the slug "file name without .md", no
\* two of them the same slug, and the map holds each of them under its slug
\* and nothing else
SlugKeyed(items, map) ==
    /\ \A i \in 1..Len(items) :
          /\ HasMdExtension(items[i].filename)
          /\ items[i].slug = Stem(items[i].filename)
          /\ items[i].slug \in DOMAIN map
          /\ map[items[i].slug].filename = items[i].filename
    /\ \A i, j \in 1..Len(items) : i # j => items[i].slug # items[j].slug
    /\ Cardinality(DOMAIN map) = Len(items)

\* C19: in the module written, each of rules, guides and concepts is keyed
\* by slug = file name without its '.md', distinct files have distinct
\* slugs, and each map has exactly one entry per record parsed.
C19_SlugsAreDistinctKeys ==
    OutputWritten =>
        /\ SlugKeyed(rules, generated.rules)
        /\ SlugKeyed(guides, generated.guides)
        /\ SlugKeyed(concepts, generated.concepts)
        /\ Len(guides) = Len(guidesDir.files)
        /\ Len(concepts) = Len(conceptsDir.files)

C19_Witness ==
    /\ OutputWritten
    /\ Len(rules) = 2
    /\ Len(guides) = 2
    /\ Len(concepts) = 2
    /\ Cardinality(DOMAIN generated.rules) = 2

----------------------------------------------------------------------------
\* Ownership of the rules

\* the places <<i, k>> of the entries of the emitted Sections' rules lists
ListedPlaces ==
    UNION { {<<i, k>> : k \in 1..Len(generated.sections[i].rules)} :
                i \in 1..Len(generated.sections) }

\* the places a slug is listed at
PlacesOf(slug) == {p \in ListedPlaces : generated.sections[p[1]].rules[p[2]].slug = slug}

\* C20: every rule of the emitted map is listed in exactly one emitted
\* Section, the one with the id of its `section` field; every entry of a
\* Section's list is a key of the map; so the lists together have as many
\* entries as the map (the number the home page shows as the total).
C20_EveryRuleOwnedByOneSection ==
    OutputWritten =>
        /\ \A slug \in DOMAIN generated.rules :
              /\ Cardinality(PlacesOf(slug)) = 1
              /\ \A p \in PlacesOf(slug) :
                    generated.sections[p[1]].id = generated.rules[slug].section
        /\ \A p \in ListedPlaces :
              generated.sections[p[1]].rules[p[2]].slug \in DOMAIN generated.rules
        /\ Cardinality(ListedPlaces) = Cardinality(DOMAIN generated.rules)

\* the ids of the index are pairwise distinct
DistinctSectionIds ==
    \A i, j \in 1..Len(sections) : i # j => sections[i].id # sections[j].id

C20_WithDistinctIds == DistinctSectionIds => C20_EveryRuleOwnedByOneSection

C20_OwnedOnce ==
    /\ OutputWritten
    /\ DistinctSectionIds
    /\ Len(generated.sections) = 2
    /\ Cardinality(DOMAIN generated.rules) = 3
    /\ Cardinality(ListedPlaces) = 3

----------------------------------------------------------------------------
\* Login

\* a login has been answered
LoginAnswered == loginDto # <<>>

\* some user has the submitted email and the first of them has the
\* submitted password
CredentialsMatch ==
    /\ \E i \in 1..Len(users) : users[i].email = loginDto[1].email
    /\ LET first == CHOOSE i \in 1..Len(users) :
                        /\ users[i].email = loginDto[1].email
                        /\ \A j \in 1..(i - 1) : users[j].email # loginDto[1].email
       IN  users[first].password = loginDto[1].password

\* C21: login answers with a signed token exactly when a user with the
\* submitted email exists and its stored password is the submitted one; in
\* every other case (unknown email, wrong password) the answer is
\* UnauthorizedException, without a token, and nothing else.
C21_TokenOnlyForMatchingPassword ==
    LoginAnswered =>
        /\ loginResult.kind \in {"token", "unauthorized"}
        /\ loginResult.kind = "token" <=> CredentialsMatch
        /\ loginResult.kind = "unauthorized" => loginResult.token = <<>>
        /\ loginResult.kind = "token" => Len(loginResult.token) = 1

C21_Witness ==
    /\ LoginAnswered
    /\ loginResult.kind = "unauthorized"
    /\ \E i \in 1..Len(users) :
          users[i].email = loginDto[1].email /\ users[i].password # loginDto[1].password

----------------------------------------------------------------------------
\* The token payload

\* the user the submitted email finds
MatchedUser ==
    users[CHOOSE i \in 1..Len(users) :
              /\ users[i].email = loginDto[1].email
              /\ \A j \in 1..(i - 1) : users[j].email # loginDto[1].email]

\* what the token of a successful login carries
Payload == loginResult.token[1].signed

\* C29: the payload of a token has the two fields email and id, holding the
\* submitted email and the id of the matched user; no field holds the
\* password; and a login of the same email against any other collection in
\* which that email finds a user of the same id, with whatever password
\* succeeds there, yields the same payload.
C29_PayloadIsEmailAndId ==
    LoginAnswered /\ loginResult.kind = "token" =>
        /\ DOMAIN Payload = {"email", "id"}
        /\ Payload.email = loginDto[1].email
        /\ Payload.id = MatchedUser.id
        /\ "password" \notin DOMAIN Payload
        /\ \A t \in UserTables, p \in Passwords :
              LET other == login(t, [email |-> loginDto[1].email, password |-> p]) IN
              /\ other.kind = "token"
              /\ findByEmail(t, loginDto[1].email)[1].id = MatchedUser.id
              => other.token[1].signed = Payload

C29_Witness ==
    /\ LoginAnswered
    /\ loginResult.kind = "token"
    /\ Len(users) = 2
    /\ MatchedUser.id = 2
    /\ loginDto[1].password = "p2"

----------------------------------------------------------------------------
\* Seeding

\* the users of an email that seeding created
SeededWith(email) == {i \in 1..Len(users) : users[i].email = email /\ users[i].origin = "seed"}

\* seed() has resolved in the current run
SeedCompleted == \E k \in 1..Len(seedSteps) : seedSteps[k] = "seed"

\* the emails of the seed data
SeedEmails == {usersSeed[k].email : k \in 1..Len(usersSeed)}

\* C22: over any number of runs one after the other, from any collection:
\* no seed email ever has two users created by seeding; when seed() has
\* resolved every seed email has a user; a step changes the collection only
\* by adding one user, whose email no user had, and leaves every user that
\* was there as it was.
C22_SeedingIsIdempotent ==
    /\ [](/\ \A e \in SeedEmails : Cardinality(SeededWith(e)) <= 1
          /\ SeedCompleted =>
                \A e \in SeedEmails : \E i \in 1..Len(users) : users[i].email = e)
    /\ [][/\ Len(users') \in {Len(users), Len(users) + 1}
           /\ \A i \in 1..Len(users) : users'[i] = users[i]
           /\ Len(users') > Len(users) =>
                 /\ \A j \in 1..Len(users) : users[j].email # users'[Len(users')].email
                 /\ users'[Len(users')].email \in SeedEmails]_vars

C22_Witness ==
    /\ seedRun = 2
    /\ SeedCompleted
    /\ Len(usersSeed) = 2
    /\ usersSeed[1].email = usersSeed[2].email
    /\ Cardinality(SeededWith(usersSeed[1].email)) = 1
    /\ \E i \in 1..Len(users) : users[i].origin = "before"

\* the seed script has ended
SeedExited == seedPc = "exited"

\* C30: the script exits 0 only when the context was created, seed()
\* resolved and the context was closed, in that order and without an error;
\* whenever one of the three raised, it exits 1 after logging the error; it
\* always exits 0 or 1.
C30_SeedExitStatus ==
    /\ seedExit \in {-1, 0, 1}
    /\ SeedExited => seedExit \in {0, 1}
    /\ seedExit = 0 =>
          /\ seedSteps = <<"context", "seed", "close">>
          /\ seedError = ""
          /\ ~appOpen
    /\ SeedExited /\ seedError # "" => seedExit = 1 /\ seedLog = <<seedError>>
    /\ SeedExited /\ ~SeedCompleted => seedExit = 1

C30_Witness ==
    /\ SeedExited
    /\ seedError = "seed"
    /\ seedExit = 1
    /\ seedIndex = 2

----------------------------------------------------------------------------
\* Impact and Description lines

IndexLines == sectionsFile.lines

\* the lines that are headings, with or without an id
IsHeading(i) == IndexLines[i].kind \in {"header", "noid"}

\* the place of the heading that opens the k-th Section
OwnHeading(k) ==
    CHOOSE i \in 1..Len(IndexLines) :
        /\ IndexLines[i].kind = "header"
        /\ Cardinality({j \in 1..(i - 1) : IndexLines[j].kind = "header"}) = k - 1

\* the lines between the k-th Section's heading and the next heading of any
\* kind
OwnLines(k) ==
    {i \in (OwnHeading(k) + 1)..Len(IndexLines) :
        \A j \in (OwnHeading(k) + 1)..i : ~IsHeading(j)}

\* the value of the last line of a kind among the Section's own lines, ""
\* when there is none
LastOwn(k, kind) ==
    LET at == {i \in OwnLines(k) : IndexLines[i].kind = kind}
    IN  IF at = {} THEN "" ELSE IndexLines[CHOOSE i \in at : \A j \in at : j <= i].value

\* C23: the impact and description of a Section are those of the last
\* Impact and Description line between its own heading and the next heading
\* of any kind, a heading without id included, and "" when there is no such
\* line; labelled lines before the first heading belong to no Section.
C23_FieldsBelongToOwnHeading ==
    SectionsReturned =>
        \A k \in 1..Len(sections) :
            /\ sections[k].impact = LastOwn(k, "impact")
            /\ sections[k].description = LastOwn(k, "desc")

\* the index has no heading without an id
NoIdlessHeading == \A i \in 1..Len(IndexLines) : IndexLines[i].kind # "noid"

C23_WithoutIdlessHeadings == NoIdlessHeading => C23_FieldsBelongToOwnHeading

C23_LastWins ==
    /\ SectionsReturned
    /\ Len(IndexLines) = 4
    /\ IndexLines[1].kind = "impact"
    /\ IndexLines[2].kind = "header"
    /\ IndexLines[3].kind = "impact"
    /\ IndexLines[4].kind = "impact"
    /\ IndexLines[3].value # IndexLines[4].value
    /\ sections[1].impact = IndexLines[4].value

----------------------------------------------------------------------------
\* A run that aborts

\* main() was rejected in one of the four parsing phases
Aborted == pc \in {"rejected", "handled"} \/ (pc = "exited" /\ rejection # "")

\* C24: when the run aborts before generateOutput (a missing section index, a
\* missing rules directory, an exception in a parsing phase) the output file
\* is neither created nor modified: no write has happened in the run, and no
\* step into or inside the aborted run changes the file, so a file that was
\* there keeps its contents and an absent one stays absent.
C24_AbortLeavesOutputUntouched ==
    /\ [](Aborted => outputFile.writes = 0 /\ outputFile \in OutputFilesBefore)
    /\ [][Aborted' => outputFile' = outputFile]_vars

\* an aborted run has ended next to a file an earlier run had written
C24_Witness ==
    /\ pc = "exited"
    /\ rejection # ""
    /\ outputFile.exists
    /\ outputFile.content = StaleOutput

\* an aborted run has ended and there is still no output file
C24_WitnessAbsent ==
    /\ pc = "exited"
    /\ rejection # ""
    /\ ~outputFile.exists

----------------------------------------------------------------------------
\* Previous and next links

\* the navigation list of a kind of page
NavList(page) ==
    CASE page = "guide" -> generated.guidesList
      [] page = "concept" -> generated.conceptsList
      [] OTHER -> allRules

\* the page a route is answered with
PageOf(page, slug) ==
    CASE page = "guide" -> GuidePage(slug)
      [] page = "concept" -> ConceptPage(slug)
      [] OTHER -> RulePage(slug)

\* a detail page has been served
PageServed == route # NoRoute /\ view.status = "ok"

\* the slugs of the items of a navigation list
SlugsOf(list) == {list[i].slug : i \in 1..Len(list)}

\* C25: on the guide, concept and rule pages the previous and next links are
\* mutually inverse over the page's navigation list: a page the loader
\* serves has an index >= 0 in the list, B is the next of A exactly when A is
\* the previous of B, the first item has no previous link and the last item
\* has no next link.
C25_PrevNextInverse ==
    PageServed =>
        LET list == NavList(route.page) IN
        /\ view.currentIndex >= 0
        /\ \A b \in SlugsOf(list) \cup {route.slug} :
              /\ view.next = <<b>> <=> PageOf(route.page, b).prev = <<route.slug>>
              /\ view.prev = <<b>> <=> PageOf(route.page, b).next = <<route.slug>>
        /\ Len(list) > 0 /\ route.slug = list[1].slug => view.prev = <<>>
        /\ Len(list) > 0 /\ route.slug = list[Len(list)].slug => view.next = <<>>

\* the same for requests of own keys, over lists that hold no slug twice
NoSlugTwice(list) == \A i, j \in 1..Len(list) : i # j => list[i].slug # list[j].slug

C25_OwnKeysDistinctSlugs ==
    route # NoRoute /\ route.slug # CONSTRUCTOR /\ NoSlugTwice(NavList(route.page))
        => C25_PrevNextInverse

\* /guides/constructor is served, with a next link and no place in the list
C25_InheritedKeyServed ==
    /\ PageServed
    /\ route.slug = CONSTRUCTOR
    /\ view.currentIndex = -1
    /\ view.next # <<>>

\* a rule listed under two Sections is its own next
C25_RuleItsOwnNext ==
    /\ PageServed
    /\ route.page = "rule"
    /\ view.next = <<route.slug>>

\* the second of two items: a previous link and no next link
C25_LastOfTwo ==
    /\ PageServed
    /\ route.slug # CONSTRUCTOR
    /\ NoSlugTwice(NavList(route.page))
    /\ view.currentIndex = 1
    /\ view.prev # <<>>
    /\ view.next = <<>>

----------------------------------------------------------------------------
\* The theme

\* the provider is mounted and its effects have run
ThemeSettled == themePc = "mounted" /\ ~effectsPending

\* what the statement asks of a settled state
ResolvedAsClaimed ==
    /\ resolvedTheme \in {"dark", "light"}
    /\ theme \in {"dark", "light"} => resolvedTheme = theme
    /\ theme = "system" => resolvedTheme = getSystemTheme(osDark)
    /\ rootDark <=> resolvedTheme = "dark"

\* C28: in every state reached after the provider's effects have run,
\* whatever localStorage held under "theme", resolvedTheme is "dark" or
\* "light", equals theme when theme is "dark" or "light", equals the OS
\* colour scheme when theme is "system", and the root element has the class
\* "dark" exactly when resolvedTheme is "dark".  (That an OS colour-scheme
\* change alters resolvedTheme only while theme is "system" is
\* C28_OsChangeOnlyWhileSystem.)
C28_ResolvedThemeFollowsTheme == ThemeSettled => ResolvedAsClaimed

\* an OS colour-scheme change leaves resolvedTheme as it is unless theme is
\* "system"
C28_OsChangeOnlyWhileSystem ==
    [][ThemeSettled /\ osDark' # osDark /\ theme # "system"
          => resolvedTheme' = resolvedTheme]_vars

\* the same when the stored item is absent, empty or one of the three values
ValidStoredTheme == theme \in {"dark", "light", "system"}

C28_WithValidStoredTheme == ValidStoredTheme /\ ThemeSettled => ResolvedAsClaimed

\* a stored item that is no theme has become the resolved theme
C28_StoredItemResolved ==
    /\ ThemeSettled
    /\ resolvedTheme = "blue"
    /\ ~rootDark

\* the OS scheme is dark, the theme follows it
C28_SystemDark ==
    /\ ThemeSettled
    /\ theme = "system"
    /\ osDark
    /\ resolvedTheme = "dark"
    /\ rootDark
    /\ Len(trail) > 1

\* setTheme has been called since the provider was mounted
ThemeWasSet == themePc = "mounted" /\ Len(trail) > 1

\* C27: after any sequence of setTheme calls the item stored under "theme"
\* equals the provider's theme, so that a provider mounted afterwards (a
\* reload) starts with the last theme that was set; with nothing stored it
\* starts as "system".
C27_StoredThemeIsTheme ==
    /\ [](ThemeWasSet => storedTheme = <<theme>>)
    /\ [](themePc = "mounted" /\ storedTheme = <<>> => theme = "system")
    /\ [][ThemeWasSet /\ Len(trail') = 1 => theme' = theme]_vars

\* the page was reloaded after a click and starts with the theme chosen
C27_Witness ==
    /\ themePc = "mounted"
    /\ trail = <<"dark">>
    /\ effectsPending
    /\ storedTheme = <<"dark">>
    /\ theme = "dark"

\* the provider is mounted with nothing stored
C27_WitnessNothingStored ==
    /\ themePc = "mounted"
    /\ storedTheme = <<>>
    /\ theme = "system"

\* the value after `t` in the cycle light -> dark -> system -> light
NextInCycle(t) ==
    CASE t = "light" -> "dark"
      [] t = "dark" -> "system"
      [] t = "system" -> "light"

\* the value a label names, <<>> for no label
NamedBy(label) ==
    CASE label = <<"Switch to dark mode">> -> <<"dark">>
      [] label = <<"Switch to system theme">> -> <<"system">>
      [] label = <<"Switch to light mode">> -> <<"light">>
      [] OTHER -> <<>>

\* what the next activation selects, computed from cycleTheme's branches
SelectedNext(t) == IF t = "light" THEN "dark" ELSE IF t = "dark" THEN "system" ELSE "light"

\* C26: activating ThemeToggle cycles the theme light -> dark -> system ->
\* light: from each of the three values one activation moves to the next
\* value of the cycle, three consecutive activations return to the starting
\* value, and the button's label always names the value the next activation
\* will select.
C26_ToggleCycles ==
    themePc = "mounted" =>
        /\ \A i \in 1..(Len(trail) - 1) :
              trail[i] \in {"light", "dark", "system"} => trail[i + 1] = NextInCycle(trail[i])
        /\ \A i \in 1..(Len(trail) - 3) : trail[i + 3] = trail[i]
        /\ NamedBy(themeLabel(theme)) = <<SelectedNext(theme)>>

\* the same from a theme that is one of the three values
C26_FromTheThreeValues ==
    themePc = "mounted" /\ trail[1] \in {"light", "dark", "system"} => C26_ToggleCycles

\* the toggle went once round the cycle
C26_OnceRound ==
    /\ themePc = "mounted"
    /\ Len(trail) >= 4
    /\ trail[1] \in {"light", "dark", "system"}
    /\ trail[4] = trail[1]

\* a theme that is none of the three values: no label, and the toggle does
\* not come back to it
C26_NoLabel ==
    /\ themePc = "mounted"
    /\ Len(trail) >= 4
    /\ trail[1] = "blue"
    /\ themeLabel(trail[1]) = <<>>

====
